---- MODULE Spec2Model ----
(***************************************************************************)
(* Model of the ThingMagic UHF RFID reader driver                          *)
(* (SparkFun_UHF_RFID_Reader.cpp / .h): the frame codec (calculateCRC,     *)
(* sendMessage), the synchronous transport (sendCommand) and the           *)
(* selective-match loop (SelectiveReadDataRegion).                         *)
(*                                                                         *)
(* Bytes are 0..255 and every uint8_t keeps its width (% 256).  The        *)
(* serial line is a pair of byte queues: rx (bytes the UART has buffered   *)
(* for the driver) and tx (bytes the driver has written); wire holds the   *)
(* bytes the module is still going to emit.  Only differences of millis()  *)
(* are ever read by the code, so time is kept as elapsed = millis() minus  *)
(* the last startTime / drainStart.                                        *)
(***************************************************************************)
EXTENDS Integers, Sequences, FiniteSets, TLC

(* ------------------------------------------------------------------ *)
(* Program constants                                                   *)
(* ------------------------------------------------------------------ *)
MAX_MSG_SIZE == 255
COMMAND_TIME_OUT == 2000
ALL_GOOD == 0
ERROR_COMMAND_RESPONSE_TIMEOUT == 1
ERROR_CORRUPT_RESPONSE == 2
ERROR_WRONG_OPCODE_RESPONSE == 3
RESPONSE_SUCCESS == 11
RESPONSE_FAIL == 12
ERROR_INVALID_EPC_REQ == 13
ERROR_INVALID_REQ == 14
TMR_SR_OPCODE_VERSION == 3
TMR_SR_OPCODE_READ_TAG_ID_MULTIPLE == 34
TMR_SR_OPCODE_CLEAR_TAG_ID_BUFFER == 42
TMR_SR_OPCODE_MULTI_PROTOCOL_TAG_OP == 47
TMR_SR_OPCODE_SET_READER_OPTIONAL_PARAMS == 154
TMR_GEN2_BANK_RESERVED == 0
TMR_GEN2_BANK_EPC == 1
TMR_GEN2_BANK_TID == 2
TMR_GEN2_BANK_USER == 3
TMR_GEN2_BANK_RESERVED_ENABLED == 4
TMR_GEN2_BANK_TID_ENABLED == 16
TMR_GEN2_BANK_USER_ENABLED == 32
HEADER == 255
DRAIN_WINDOW == 250
DRAIN_POLL == 5

(* ------------------------------------------------------------------ *)
(* Bounds of the model                                                 *)
(* ------------------------------------------------------------------ *)
\* delay(n) returns after n .. n + MaxJitter ms
MaxJitter == 1
\* at most RxCap bytes wait unread in the UART receive buffer
RxCap == 3
\* no more than MaxTx bytes of one call are recorded in tx
MaxTx == 260

U8(n) == n % 256

(* ------------------------------------------------------------------ *)
(* calculateCRC                                                        *)
(* ------------------------------------------------------------------ *)
crctable ==
  << 0, 4129, 8258, 12387, 16516, 20645, 24774, 28903,
     33032, 37161, 41290, 45419, 49548, 53677, 57806, 61935 >>

RECURSIVE XorBits(_, _, _)
XorBits(a, b, n) ==
  IF n = 0 THEN 0
  ELSE (((a % 2) + (b % 2)) % 2) + 2 * XorBits(a \div 2, b \div 2, n - 1)

\* crc = ((crc << 4) | nibble) ^ crctable[crc >> 12], kept in a uint16_t
CrcStep(crc, nibble) ==
  XorBits(((crc * 16) % 65536) + nibble, crctable[(crc \div 4096) + 1], 16)

\* one pass of the loop body: the high nibble of the byte, then the low one.
\* Each intermediate crc is bound to its value before it is used again.
CrcByte(crc, byte) ==
  CHOOSE c2 \in { CrcStep(c1, byte % 16) : c1 \in { CrcStep(crc, byte \div 16) } } : TRUE

RECURSIVE CrcFrom(_, _, _, _)
\* the passes of for (i = 0; i < len; i++) over bytes from .. to of u8Buf
\* (counted from 1), begun with crc: those over from .. mid, then those over
\* mid + 1 .. to begun with what the first ones left
CrcFrom(u8Buf, from, to, crc) ==
  IF from > to THEN crc
  ELSE IF from = to THEN CrcByte(crc, u8Buf[from])
  ELSE CHOOSE r \in
         { CHOOSE r2 \in { CrcFrom(u8Buf, mid + 1, to, c) :
                             c \in { CrcFrom(u8Buf, from, mid, crc) } } : TRUE :
           mid \in { (from + to) \div 2 } } : TRUE

\* a check value that depends on the byte count alone
countOnlyCRC(u8Buf, len) == len

\* u8Buf is the sequence of bytes the pointer addresses, len the byte count
calculateCRC(u8Buf, len) ==
  CHOOSE r \in { CrcFrom(b, 1, len, 65535) : b \in { u8Buf } } : TRUE

(* ------------------------------------------------------------------ *)
(* State                                                               *)
(* ------------------------------------------------------------------ *)
VARIABLES
  pc,              \* position of the driver inside sendMessage / sendCommand
  msg,             \* RFID::msg, the shared buffer, indices 0 .. MAX_MSG_SIZE - 1
  messageLength,   \* sendCommand's uint8_t messageLength
  spot,            \* sendCommand's uint8_t spot
  x,               \* index of the write loop in sendCommand
  elapsed,         \* millis() - startTime (millis() - drainStart while draining)
  returnedFrom,    \* which return statement of sendCommand ended the call
  \* the arguments of the running sendMessage call
  opcode,          \* also sendCommand's local copy of the request opcode
  data,
  timeOut,
  waitForResponse,
  reply,           \* what the module does about the call: its bytes, streamed or not
  \* the serial line
  rx,              \* bytes buffered by the UART, not yet read by the driver
  tx,              \* bytes the driver has written in this call
  wire,            \* bytes the module is still going to emit
  stream,          \* TRUE: the module streams wire endlessly, whatever it is sent
  \* history of the running call
  staleLeft,       \* how many bytes at the front of rx were buffered at the call
  flushed,         \* how many bytes the flush loop read and dropped
  bodyClock,       \* ms since the driver saw the first byte of the response
  lateReply,       \* TRUE: the first byte was seen more than timeOut ms after the write
  moduleSent,      \* TRUE once the module has emitted a byte during the call
  earlyLeft,       \* how many bytes at the front of rx arrived while the command was written
  oob,             \* TRUE once a store went past the end of msg
  \* SelectiveReadDataRegion
  spc,             \* position inside SelectiveReadDataRegion
  sel,             \* its arguments: selepc, bank, address, length, capacity
  retryCount,      \* its uint8_t retryCount
  dataRead,        \* the caller's buffer, as far as it was written
  dataLengthRead,  \* the caller's in/out length
  ret,             \* the value returned
  reads,           \* how many multi-tag read requests the call has sent
  \* continuous reading: check() and parseResponse()
  _head,           \* RFID::_head, where the next byte of the stream is stored
  _continuousModeTemp,  \* RFID::_continuousModeTemp
  _contTemp,       \* RFID::_contTemp, the temperature of the last stats update
  cpc,             \* position inside check()
  checkReturn,     \* what the last call of check() returned
  lastComplete,    \* the frame the running call of check() completed last
  consumed,        \* how many bytes the running call of check() has read
  parseReturn,     \* what parseResponse() returned for the msg as it is
  \* ReadingAllBanks
  read,            \* the caller's TMR_TagReadData
  bankIdx          \* the uint8_t i of the loop over the bank blocks

argVars   == << opcode, data, timeOut, waitForResponse, reply >>
lineVars  == << rx, tx, wire, stream >>
histVars  == << staleLeft, flushed, bodyClock, lateReply, moduleSent, earlyLeft, oob >>
chkVars   == << _head, _continuousModeTemp, _contTemp, cpc, checkReturn,
                lastComplete, consumed, parseReturn >>
bankVars  == << read, bankIdx >>
selVars   == << spc, sel, retryCount, dataRead, dataLengthRead, ret, reads, chkVars, bankVars >>
vars      == << pc, msg, messageLength, spot, x, elapsed, returnedFrom,
                argVars, lineVars, histVars, selVars >>

MsgIndex == 0 .. (MAX_MSG_SIZE - 1)

\* a store msg[i] = v; a store past the end of the array does not land in msg
StoreAt(m, i, v) == IF i \in MsgIndex THEN [m EXCEPT ![i] = v] ELSE m

\* the len bytes that the pointer &m[from] addresses
MsgBytes(m, from, len) == [i \in 1 .. len |-> m[from + i - 1]]

\* for (x = 0; x < size; x++) msg[3 + x] = data[x];
\* what the n stores leave in msg (d is counted from 1)
CopyData(m, d, n) ==
  [i \in MsgIndex |-> IF 3 <= i /\ i < 3 + n THEN d[i - 2] ELSE m[i]]

\* sendMessage's stores followed by sendCommand's header and CRC stores
EncodedMsg(m, op, d) ==
  LET size == Len(d)
      m1   == CopyData([m EXCEPT ![1] = size, ![2] = op], d, size)
      m2   == [m1 EXCEPT ![0] = HEADER]
      crc  == calculateCRC(MsgBytes(m2, 1, U8(size + 2)), U8(size + 2))
  IN  StoreAt(StoreAt(m2, size + 3, crc \div 256), size + 4, crc % 256)

(* ------------------------------------------------------------------ *)
(* The module: what it puts on the wire                                *)
(* ------------------------------------------------------------------ *)
\* a response frame: FF LEN OP STATUS_HI STATUS_LO data.. CRC_HI CRC_LO,
\* LEN counting the data bytes only
Resp(op, status, d) ==
  LET body == << Len(d), op >> \o status \o d
      crc  == calculateCRC(body, Len(body))
  IN  << HEADER >> \o body \o << crc \div 256, crc % 256 >>

\* the same frame with the low bit of its last CRC byte flipped
BadCrc(f) ==
  [f EXCEPT ![Len(f)] = IF f[Len(f)] % 2 = 0 THEN f[Len(f)] + 1 ELSE f[Len(f)] - 1]

OtherOpcode(op) ==
  IF op = TMR_SR_OPCODE_VERSION THEN TMR_SR_OPCODE_READ_TAG_ID_MULTIPLE
  ELSE TMR_SR_OPCODE_VERSION

Once(b) == [bytes |-> b, stream |-> FALSE]
Forever(b) == [bytes |-> b, stream |-> TRUE]
Silent == Once(<< >>)

\* a keep-alive frame of continuous reading
KeepAlive == Resp(TMR_SR_OPCODE_READ_TAG_ID_MULTIPLE, << 4, 0 >>, << >>)

\* what the module may do about a command with opcode op: stay silent, answer
\* with a good, faulty, foreign or damaged frame, stop in the middle of one,
\* send garbage, or stream on
Replies(op) ==
  LET good  == Resp(op, << 0, 0 >>, << >>)
      good1 == Resp(op, << 0, 0 >>, << 17 >>)
      fault == Resp(op, << 4, 0 >>, << >>)
      wrong == Resp(OtherOpcode(op), << 0, 0 >>, << >>)
  IN  { Once(b) :
          b \in { << >>, good, good1, fault, wrong, BadCrc(good), BadCrc(wrong),
                  SubSeq(good, 1, 1), SubSeq(good1, 1, 4),
                  good \o << 0 >>, << 0, 0, 0, 0, 0, 0, 0 >>,
                  << HEADER, 249, op >>, << HEADER, 252, 255, 255 >> } }
      \cup { Forever(KeepAlive) }
      \cup (IF op = TMR_SR_OPCODE_VERSION THEN { Forever(<< 248 >>) } ELSE {})

\* bytes left in the UART buffer by earlier traffic when a call starts
StaleBytes == { << >>, << HEADER, 0 >> }

\* values an access past the end of msg may read
OobBytes == { 0, 255 }

(* ------------------------------------------------------------------ *)
(* sendMessage / sendCommand                                           *)
(* ------------------------------------------------------------------ *)
Min(a, b) == IF a < b THEN a ELSE b

\* delay(n): the task sleeps at least n ms
DelayTimes(n) == n .. (n + MaxJitter)

\* sendMessage(op, d, size, t, w) up to the point where sendCommand has
\* attached header and CRC; r is what the module will do about it
SendMessage(op, d, t, w, r) ==
  /\ msg' = EncodedMsg(msg, op, d)
  /\ messageLength' = Len(d)
  /\ opcode' = op
  /\ data' = d
  /\ timeOut' = t
  /\ waitForResponse' = w
  /\ reply' = r
  /\ wire' = r.bytes
  /\ stream' = r.stream
  /\ tx' = << >>
  /\ staleLeft' = Len(rx)
  /\ flushed' = 0
  /\ bodyClock' = 0
  /\ lateReply' = FALSE
  /\ moduleSent' = FALSE
  /\ earlyLeft' = 0
  /\ oob' = (oob \/ Len(d) + 4 > MAX_MSG_SIZE - 1)
  /\ returnedFrom' = "none"
  /\ pc' = "flush"
  /\ UNCHANGED << spot, x, rx, elapsed >>

\* a flush that reads one byte only (an if in place of the while)
FlushedOne(q) == IF q = << >> THEN q ELSE Tail(q)

\* while (_rfidSerial->available()) _rfidSerial->read();
\* the loop outruns the line: it ends with everything buffered so far read
FlushedRx(q) == << >>

Flush ==
  /\ pc = "flush"
  /\ rx' = FlushedRx(rx)
  /\ flushed' = Len(rx) - Len(rx')
  /\ staleLeft' = staleLeft - Min(staleLeft, Len(rx) - Len(rx'))
  /\ x' = 0
  /\ pc' = "write"
  /\ UNCHANGED << msg, messageLength, spot, elapsed, returnedFrom, argVars,
                  tx, wire, stream, bodyClock, lateReply, moduleSent, earlyLeft, oob,
                  selVars >>

\* the bound of the write loop: x < messageLength + 5, x a uint8_t
WriteLimit(len) == len + 5

\* one iteration of: for (uint8_t x = 0; x < messageLength + 5; x++) write(msg[x])
WriteByte ==
  /\ pc = "write"
  /\ x < WriteLimit(messageLength)
  /\ Len(tx) < MaxTx
  /\ \E b \in (IF x \in MsgIndex THEN { msg[x] } ELSE OobBytes) :
       tx' = Append(tx, b)
  /\ x' = U8(x + 1)
  /\ UNCHANGED << pc, msg, messageLength, spot, elapsed, returnedFrom, argVars,
                  rx, wire, stream, histVars, selVars >>

\* the write loop ends; startTime = millis() when a response is awaited
WriteDone ==
  /\ pc = "write"
  /\ ~(x < WriteLimit(messageLength))
  /\ pc' = IF waitForResponse THEN "wait1" ELSE "settle"
  /\ elapsed' = 0
  /\ UNCHANGED << msg, messageLength, spot, x, returnedFrom, argVars,
                  lineVars, histVars, selVars >>

\* waitForResponse == false: delay(50); drainStart = millis();
Settle ==
  /\ pc = "settle"
  /\ pc' = "drain"
  /\ elapsed' = 0
  /\ UNCHANGED << msg, messageLength, spot, x, returnedFrom, argVars,
                  lineVars, histVars, selVars >>

\* a drain loop that keeps the byte it read in msg[0]
DrainedStoring(m, q) == IF q = << >> THEN m ELSE [m EXCEPT ![0] = Head(q)]

\* what one pass of the drain loop leaves of msg: it only reads and drops
DrainedMsg(m, q) == m

\* while (millis() - drainStart < 250) { while (available()) read(); delay(5); }
DrainPoll ==
  /\ pc = "drain"
  /\ elapsed < DRAIN_WINDOW
  /\ msg' = DrainedMsg(msg, rx)
  /\ rx' = << >>
  /\ staleLeft' = 0
  /\ earlyLeft' = 0
  /\ \E d \in DelayTimes(DRAIN_POLL) : elapsed' = elapsed + d
  /\ UNCHANGED << pc, messageLength, spot, x, returnedFrom, argVars,
                  tx, wire, stream, flushed, bodyClock, lateReply, moduleSent, oob,
                  selVars >>

DrainDone ==
  /\ pc = "drain"
  /\ ~(elapsed < DRAIN_WINDOW)
  /\ pc' = "done"
  /\ returnedFrom' = "drain"
  /\ UNCHANGED << msg, messageLength, spot, x, elapsed, argVars,
                  lineVars, histVars, selVars >>

\* a first-byte deadline of timeOut in place of timeOut * 2
FirstByteExpiredOnce(e, t) == e > t

\* the deadline of the first-byte wait: millis() - startTime > (timeOut * 2)
FirstByteExpired(e, t) == e > t * 2

\* the deadline of the body wait: millis() - startTime > timeOut
BodyExpired(e, t) == e > t

\* a body wait that goes on measuring from the end of the write
BodyStartKept(e) == e

\* startTime = millis() before the body loop: the body wait starts from zero
BodyStart(e) == 0

\* while (available() == false): a byte is there, the body wait begins with
\* messageLength = MAX_MSG_SIZE - 1, startTime = millis(), spot = 0
Wait1Avail ==
  /\ pc = "wait1"
  /\ rx # << >>
  /\ messageLength' = MAX_MSG_SIZE - 1
  /\ lateReply' = BodyExpired(elapsed, timeOut)
  /\ elapsed' = BodyStart(elapsed)
  /\ bodyClock' = 0
  /\ spot' = 0
  /\ pc' = "body"
  /\ UNCHANGED << msg, x, returnedFrom, argVars, lineVars,
                  staleLeft, flushed, moduleSent, earlyLeft, oob, selVars >>

\* a timeout that returns without storing its code
TimedOutMsgUnset(m) == m

\* msg[0] = ERROR_COMMAND_RESPONSE_TIMEOUT;
TimedOutMsg(m) == [m EXCEPT ![0] = ERROR_COMMAND_RESPONSE_TIMEOUT]

Wait1Timeout ==
  /\ pc = "wait1"
  /\ rx = << >>
  /\ FirstByteExpired(elapsed, timeOut)
  /\ msg' = TimedOutMsg(msg)
  /\ pc' = "done"
  /\ returnedFrom' = "wait1"
  /\ UNCHANGED << messageLength, spot, x, elapsed, argVars,
                  lineVars, histVars, selVars >>

Wait1Delay ==
  /\ pc = "wait1"
  /\ rx = << >>
  /\ ~FirstByteExpired(elapsed, timeOut)
  /\ \E d \in DelayTimes(1) : elapsed' = elapsed + d
  /\ UNCHANGED << pc, msg, messageLength, spot, x, returnedFrom, argVars,
                  lineVars, histVars, selVars >>

\* a response taken to be as long as a command frame: len + 5
ResponseLengthOfCommand(len) == U8(len + 5)

\* if (spot == 1) messageLength = msg[1] + 7;   (a uint8_t)
ResponseLength(len) == U8(len + 7)

\* spot++; spot %= MAX_MSG_SIZE;
NextSpot(s) == (s + 1) % MAX_MSG_SIZE

BodyRead ==
  /\ pc = "body"
  /\ spot < messageLength
  /\ ~BodyExpired(elapsed, timeOut)
  /\ rx # << >>
  /\ msg' = [msg EXCEPT ![spot] = Head(rx)]
  /\ rx' = Tail(rx)
  /\ staleLeft' = IF staleLeft > 0 THEN staleLeft - 1 ELSE 0
  /\ earlyLeft' = IF earlyLeft > 0 THEN earlyLeft - 1 ELSE 0
  /\ messageLength' = IF spot = 1 THEN ResponseLength(Head(rx)) ELSE messageLength
  /\ spot' = NextSpot(spot)
  /\ UNCHANGED << pc, x, elapsed, returnedFrom, argVars, tx, wire, stream,
                  flushed, bodyClock, lateReply, moduleSent, oob, selVars >>

BodyTimeout ==
  /\ pc = "body"
  /\ spot < messageLength
  /\ BodyExpired(elapsed, timeOut)
  /\ msg' = TimedOutMsg(msg)
  /\ pc' = "done"
  /\ returnedFrom' = "body"
  /\ UNCHANGED << messageLength, spot, x, elapsed, argVars,
                  lineVars, histVars, selVars >>

BodyDone ==
  /\ pc = "body"
  /\ ~(spot < messageLength)
  /\ pc' = "check"
  /\ UNCHANGED << msg, messageLength, spot, x, elapsed, returnedFrom, argVars,
                  lineVars, histVars, selVars >>

\* millis() moves on while the body loop polls without sleeping
Tick ==
  /\ pc = "body"
  /\ spot < messageLength
  /\ ~BodyExpired(elapsed, timeOut)
  /\ elapsed' = elapsed + 1
  /\ bodyClock' = bodyClock + 1
  /\ UNCHANGED << pc, msg, messageLength, spot, x, returnedFrom, argVars,
                  lineVars, staleLeft, flushed, lateReply, moduleSent, earlyLeft, oob,
                  selVars >>

\* the opcode compared before the CRC
VerdictOpcodeFirst(crcOk, opcodeOk) ==
  IF ~opcodeOk THEN ERROR_WRONG_OPCODE_RESPONSE
  ELSE IF ~crcOk THEN ERROR_CORRUPT_RESPONSE
  ELSE ALL_GOOD

\* the order of the checks after a complete response
Verdict(crcOk, opcodeOk) ==
  IF ~crcOk THEN ERROR_CORRUPT_RESPONSE
  ELSE IF ~opcodeOk THEN ERROR_WRONG_OPCODE_RESPONSE
  ELSE ALL_GOOD

\* crc = calculateCRC(&msg[1], messageLength - 3) compared with
\* msg[messageLength - 2], msg[messageLength - 1].  len is messageLength, the
\* count is converted to uint8_t; a read outside msg can yield either outcome.
CrcOutcomes(m, len) ==
  LET n == U8(len - 3)
  IN  IF n > MAX_MSG_SIZE - 1 \/ len - 2 < 0
      THEN BOOLEAN
      ELSE LET crc == calculateCRC(MsgBytes(m, 1, n), n)
           IN  { m[len - 2] = crc \div 256 /\ m[len - 1] = crc % 256 }

CheckResponse ==
  /\ pc = "check"
  /\ \E crcOk \in CrcOutcomes(msg, messageLength) :
       msg' = [msg EXCEPT ![0] = Verdict(crcOk, msg[2] = opcode)]
  /\ pc' = "done"
  /\ returnedFrom' = "check"
  /\ UNCHANGED << messageLength, spot, x, elapsed, argVars,
                  lineVars, histVars, selVars >>

(* ------------------------------------------------------------------ *)
(* The serial line                                                     *)
(* ------------------------------------------------------------------ *)
\* the write loop has not written the whole command yet: what the module
\* emits now, it emits without having received the command
CommandUnderWay == pc = "write" /\ x < WriteLimit(messageLength)

\* the module emits its next byte: a streaming module at any time, a replying
\* module once the whole command has been written
Deliver ==
  /\ wire # << >>
  /\ Len(rx) < RxCap
  /\ \/ stream /\ pc \in { "flush", "write", "settle", "drain", "wait1", "body" }
     \/ ~stream /\ pc \in { "settle", "drain", "wait1", "body" }
  /\ rx' = Append(rx, Head(wire))
  /\ wire' = IF stream THEN Append(Tail(wire), Head(wire)) ELSE Tail(wire)
  /\ moduleSent' = TRUE
  /\ earlyLeft' = IF CommandUnderWay THEN earlyLeft + 1 ELSE earlyLeft
  /\ UNCHANGED << pc, msg, messageLength, spot, x, elapsed, returnedFrom, argVars,
                  tx, stream, staleLeft, flushed, bodyClock, lateReply, oob, selVars >>

\* every step of sendCommand
Driver ==
  \/ Flush
  \/ WriteByte
  \/ WriteDone
  \/ Settle
  \/ DrainPoll
  \/ DrainDone
  \/ Wait1Avail
  \/ Wait1Timeout
  \/ Wait1Delay
  \/ BodyRead
  \/ BodyTimeout
  \/ BodyDone
  \/ CheckResponse

(* ------------------------------------------------------------------ *)
(* Specification of one sendMessage call                               *)
(* ------------------------------------------------------------------ *)
MaxTimeOut == 2

\* the synchronous calls
Commands ==
  { [op |-> c[1], data |-> c[2], timeOut |-> t, wait |-> TRUE] :
      c \in { << TMR_SR_OPCODE_VERSION, << >> >>,
              << TMR_SR_OPCODE_SET_READER_OPTIONAL_PARAMS, << 1, 8, 0 >> >> },
      t \in 1 .. MaxTimeOut }

\* stopReading: sendMessage(0x2F, {0x00, 0x00, 0x02}, 3, COMMAND_TIME_OUT, false)
StopReadingCommand ==
  [op |-> TMR_SR_OPCODE_MULTI_PROTOCOL_TAG_OP, data |-> << 0, 0, 2 >>,
   timeOut |-> COMMAND_TIME_OUT, wait |-> FALSE]

\* the module while continuous reading is stopped: silent, an acknowledgement,
\* or still streaming keep-alive frames
StopReplies ==
  { Silent,
    Once(Resp(TMR_SR_OPCODE_MULTI_PROTOCOL_TAG_OP, << 0, 0 >>, << >>)),
    Forever(KeepAlive) }

\* parseResponse() has not been called on the msg as it is
NoResult == 255

NoSelective ==
  [EPClen |-> 0, EPCoffset |-> 0, TMR_EPC |-> << >>, RetryCount |-> 0,
   bank |-> 0, address |-> 0, length |-> 0, capacity |-> 0]

TMR_MAX_EPC_BYTE_COUNT == 32

\* a TMR_uint8List with room for max bytes, nothing stored yet
EmptyList(max) == [list |-> [k \in 0 .. (max - 1) |-> 0], max |-> max, len |-> 0]

\* a TMR_TagReadData as the caller hands it in: the four lists sized as caps
\* says, everything else zero
FreshRead(caps) ==
  [epc |-> [k \in 0 .. (TMR_MAX_EPC_BYTE_COUNT - 1) |-> 0], epclen |-> 0,
   TagCount |-> 0, succesCount |-> 0, failureCount |-> 0,
   rssi |-> 0, frequency |-> 0, timestamp |-> 0,
   epcMemData |-> EmptyList(caps.epc), tidMemData |-> EmptyList(caps.tid),
   userMemData |-> EmptyList(caps.user),
   reservedMemData |-> EmptyList(caps.reserved)]

NoRead == FreshRead([epc |-> 0, tid |-> 0, user |-> 0, reserved |-> 0])

InitDriver ==
  /\ pc = "idle"
  /\ msg = [i \in MsgIndex |-> 0]
  /\ messageLength = 0
  /\ spot = 0
  /\ x = 0
  /\ elapsed = 0
  /\ returnedFrom = "none"
  /\ opcode = 0
  /\ data = << >>
  /\ timeOut = 0
  /\ waitForResponse = TRUE
  /\ reply = Silent
  /\ tx = << >>
  /\ wire = << >>
  /\ stream = FALSE
  /\ staleLeft = 0
  /\ flushed = 0
  /\ bodyClock = 0
  /\ lateReply = FALSE
  /\ moduleSent = FALSE
  /\ earlyLeft = 0
  /\ oob = FALSE
  /\ spc = "none"
  /\ sel = NoSelective
  /\ retryCount = 0
  /\ dataRead = << >>
  /\ dataLengthRead = 0
  /\ ret = 0
  /\ reads = 0
  /\ _head = 0
  /\ _continuousModeTemp = FALSE
  /\ _contTemp = 0
  /\ cpc = "idle"
  /\ checkReturn = FALSE
  /\ lastComplete = << >>
  /\ consumed = 0
  /\ parseReturn = NoResult
  /\ read = NoRead
  /\ bankIdx = 0

Init ==
  /\ InitDriver
  /\ rx \in StaleBytes

Call ==
  /\ pc = "idle"
  /\ spc = "none"
  /\ \/ \E c \in Commands : \E r \in Replies(c.op) :
          SendMessage(c.op, c.data, c.timeOut, c.wait, r)
     \/ \E r \in StopReplies :
          SendMessage(StopReadingCommand.op, StopReadingCommand.data,
                      StopReadingCommand.timeOut, StopReadingCommand.wait, r)
  /\ UNCHANGED selVars

Next ==
  \/ Call
  \/ Flush
  \/ WriteByte
  \/ WriteDone
  \/ Settle
  \/ DrainPoll
  \/ DrainDone
  \/ Wait1Avail
  \/ Wait1Timeout
  \/ Wait1Delay
  \/ BodyRead
  \/ BodyTimeout
  \/ BodyDone
  \/ Tick
  \/ CheckResponse
  \/ Deliver

Spec == Init /\ [][Next]_vars

\* the processor keeps running the driver, and the clock keeps running
FairSpec == Spec /\ WF_vars(Driver) /\ WF_vars(Tick)

(* ------------------------------------------------------------------ *)
(* Claims about the synchronous transport                              *)
(* ------------------------------------------------------------------ *)
\* the response in msg is complete: as many bytes stored as its length byte asks
CompleteResponse == returnedFrom = "check" /\ spot = msg[1] + 7

\* the trailing two bytes of the response in msg equal the CRC over bytes 1 .. total - 3
TrailingCrcMatches ==
  LET total == msg[1] + 7
      crc   == calculateCRC(MsgBytes(msg, 1, total - 3), total - 3)
  IN  msg[total - 2] = crc \div 256 /\ msg[total - 1] = crc % 256

\* C1: for a completely received response sendCommand reports corrupt when the
\* trailing CRC differs (whatever the opcode), else wrong-opcode when the opcode
\* differs from the request's, and ALL_GOOD only when both agree
C1_VerdictOrder ==
  CompleteResponse =>
    msg[0] = (IF ~TrailingCrcMatches THEN ERROR_CORRUPT_RESPONSE
              ELSE IF msg[2] # opcode THEN ERROR_WRONG_OPCODE_RESPONSE
              ELSE ALL_GOOD)

\* a complete response with a bad CRC and a foreign opcode was reported corrupt
C1_Witness ==
  /\ CompleteResponse
  /\ ~TrailingCrcMatches
  /\ msg[2] # opcode
  /\ msg[0] = ERROR_CORRUPT_RESPONSE

\* C2: when a call that waits for the response has returned, msg[0] is one of
\* ALL_GOOD, timeout, corrupt, wrong-opcode, whatever the module delivered
C2_ResultCodes ==
  (pc = "done" /\ waitForResponse) =>
    msg[0] \in { ALL_GOOD, ERROR_COMMAND_RESPONSE_TIMEOUT,
                 ERROR_CORRUPT_RESPONSE, ERROR_WRONG_OPCODE_RESPONSE }

\* a call returned from the body wait after a partial frame
C2_Witness ==
  /\ pc = "done"
  /\ waitForResponse
  /\ returnedFrom = "body"
  /\ ~stream
  /\ spot > 0
  /\ msg[0] = ERROR_COMMAND_RESPONSE_TIMEOUT

\* the first-byte wait of a call to a module that does not emit a byte
SilentCall == pc = "wait1" /\ reply = Silent /\ rx = << >>

\* C3: the first-byte wait of a call to a module that never sends a byte ends,
\* with the timeout code, at the first poll after more than 2 x timeOut ms of
\* that wait and not before
C3_SilentModuleTimesOut ==
  SilentCall ~> (/\ pc = "done"
                 /\ msg[0] = ERROR_COMMAND_RESPONSE_TIMEOUT
                 /\ elapsed > 2 * timeOut
                 /\ elapsed <= 2 * timeOut + 1 + MaxJitter)

\* a call that timed out in the first-byte wait with nothing ever received
C3_Witness ==
  /\ pc = "done"
  /\ returnedFrom = "wait1"
  /\ ~moduleSent
  /\ msg[0] = ERROR_COMMAND_RESPONSE_TIMEOUT

C5_StaleDiscarded ==
  (tx # << >> \/ pc \in { "wait1", "body", "check", "settle", "drain", "done" })
    => staleLeft = 0

\* stale bytes were dropped and the command is on its way
C5_Witness == tx # << >> /\ flushed > 0 /\ staleLeft = 0

\* msg as stopReading's sendMessage leaves it after attaching header and CRC
StopReadingMsg ==
  EncodedMsg([i \in MsgIndex |-> 0], StopReadingCommand.op, StopReadingCommand.data)

\* C6: a fire-and-forget call writes the command frame, stores no received byte
\* and no result code in msg, and returns at the end of the drain window (no
\* later than one poll past it) although the module keeps streaming
C6_FireAndForget ==
  /\ [](~waitForResponse =>
          /\ msg = StopReadingMsg
          /\ (pc = "done" =>
                /\ tx = MsgBytes(msg, 0, Len(data) + 5)
                /\ elapsed >= DRAIN_WINDOW
                /\ elapsed < DRAIN_WINDOW + DRAIN_POLL + MaxJitter))
  /\ (pc = "flush" /\ ~waitForResponse) ~> (pc = "done" /\ returnedFrom = "drain")

\* stopReading returned while the module went on streaming keep-alives
C6_Witness ==
  /\ pc = "done"
  /\ ~waitForResponse
  /\ stream
  /\ moduleSent
  /\ msg[0] = HEADER

(* ------------------------------------------------------------------ *)
(* sendMessage over the payload sizes a uint8_t size admits            *)
(* ------------------------------------------------------------------ *)
\* payload sizes around the end of msg
CodecSizes == { 0, 1, 3, 247, 248, 250, 251 }

Payload(n) == [i \in 1 .. n |-> (i * 37 + 1) % 256]

\* a module that returns the bytes of msg that the write loop puts on the line
Loopback(m, op, d) == Once(MsgBytes(EncodedMsg(m, op, d), 0, Len(d) + 5))

\* the answers to a command in this scenario: its own bytes returned, or a
\* response frame with status 0000 that carries the command's payload
CodecReplies(m, op, d) ==
  { Once(Resp(op, << 0, 0 >>, d)) }
    \cup (IF Len(d) + 5 <= MAX_MSG_SIZE THEN { Loopback(m, op, d) } ELSE {})

InitCodec ==
  /\ InitDriver
  /\ rx = << >>

CallCodec ==
  /\ pc = "idle"
  /\ spc = "none"
  /\ \E op \in { TMR_SR_OPCODE_VERSION, TMR_SR_OPCODE_READ_TAG_ID_MULTIPLE } :
       \E n \in CodecSizes :
         \E r \in CodecReplies(msg, op, Payload(n)) :
           SendMessage(op, Payload(n), 1, TRUE, r)
  /\ UNCHANGED selVars

NextCodec ==
  \/ CallCodec
  \/ Flush
  \/ WriteByte
  \/ WriteDone
  \/ Wait1Avail
  \/ Wait1Timeout
  \/ Wait1Delay
  \/ BodyRead
  \/ BodyTimeout
  \/ BodyDone
  \/ Tick
  \/ CheckResponse
  \/ Deliver

SpecCodec == InitCodec /\ [][NextCodec]_vars

(* ------------------------------------------------------------------ *)
(* SelectiveReadDataRegion                                             *)
(* ------------------------------------------------------------------ *)
\* most multi-tag reads one call is followed through
MaxReads == 6

\* the bytes one call of check() reads are counted up to this many
MaxConsumed == 2

\* a failure that leaves the caller's length as it was
FailedLengthKept(cap) == cap

\* dataLengthRead = 0 ahead of every return of a failure: cap is the value
\* the caller passed in
FailedLength(cap) == 0

\* a validation that forgets the offset of 12 with an empty pattern
InvalidEPCRequestSumOnly(s) == s.EPCoffset + s.EPClen > 12

\* if (selepc->EPCoffset + selepc->EPClen > 12 || selepc->EPCoffset == 12)
InvalidEPCRequest(s) == s.EPCoffset + s.EPClen > 12 \/ s.EPCoffset = 12

\* the bit the switch ors into configBlob[14] for the bank requested
BankEnabled(bank) ==
  IF bank = TMR_GEN2_BANK_USER THEN TMR_GEN2_BANK_USER_ENABLED
  ELSE IF bank = TMR_GEN2_BANK_TID THEN TMR_GEN2_BANK_TID_ENABLED
  ELSE IF bank = TMR_GEN2_BANK_RESERVED THEN TMR_GEN2_BANK_RESERVED_ENABLED
  ELSE 0

\* configBlob with the timeout stored and the bank added; the EPC bank (01)
\* is always read first
configBlob(bank, t) ==
  << 136, 16, 0, 23, (t \div 256) % 256, t % 256, 15, 255, 1, 9, 40, 7, 208, 0,
     1 + (IF bank = TMR_GEN2_BANK_EPC THEN 0 ELSE BankEnabled(bank)),
     0, 0, 0, 0, 0 >>

\* where the EPC starts in the response
EPCBankStartPos(bank) == IF bank = TMR_GEN2_BANK_EPC THEN 23 ELSE 25

\* the loop over e ran to EPClen: no byte of the pattern differs
MatchFound(m, s) ==
  LET EPCstart == U8(EPCBankStartPos(s.bank) + s.EPCoffset)
  IN  \A e \in 0 .. (s.EPClen - 1) :
        (IF EPCstart + e \in MsgIndex THEN m[EPCstart + e] ELSE 0) = s.TMR_EPC[e + 1]

\* a test that lets through every failure but the damaged frame
TransportFailedCorruptOnly(m) == m[0] = ERROR_CORRUPT_RESPONSE

\* if (msg[0] != ALL_GOOD) after the multi-tag read
TransportFailed(m) == m[0] # ALL_GOOD

\* a retry test that also counts when RetryCount is 0
RetryLimitedAlways(n) == TRUE

\* if (selepc->RetryCount != 0): 0 asks for retries without limit
RetryLimited(n) == n # 0

\* if (retryCount++ > selepc->RetryCount): the value compared is the one
\* before the increment
RetryExceeded(rc, n) == rc > n

BankStartPos(bank) == IF bank = TMR_GEN2_BANK_EPC THEN 23 ELSE 39

Banklength(m, bank) == IF bank = TMR_GEN2_BANK_EPC THEN 12 ELSE m[38]

\* if (Banklength < (address * 2) + (length * 2)): 32-bit arithmetic, which
\* does not wrap for the word addresses of a tag bank
Unfulfillable(m, s) ==
  Banklength(m, s.bank) < (s.address * 2) + (s.length * 2)

\* a copy loop that stops at the length requested only
CopyCountUnclamped(s, cap) == s.length * 2

\* for (x = 0; x < (length * 2) & x < dataLengthRead; x++): where x stops
CopyCount(s, cap) == Min(s.length * 2, cap)

\* dataRead[x] = msg[BankStart + x], BankStart a uint8_t; past is what a read
\* beyond the end of msg yields
CopiedData(m, s, n, past) ==
  LET BankStart == U8(BankStartPos(s.bank) + (s.address * 2))
  IN  [i \in 1 .. n |->
         IF BankStart + i - 1 \in MsgIndex THEN m[BankStart + i - 1] ELSE past]

(* the module's answers *)
TagA == << 226, 0, 0, 21, 134, 14, 2, 136, 21, 64, 41, 128 >>
TagB == [TagA EXCEPT ![12] = 129]
TagC == [TagA EXCEPT ![1] = 227]

\* the data of the bank that follows the EPC in a response: three words
BankWords == << 255, 241, 17, 34, 51, 68 >>

\* the response to a multi-tag read with an embedded bank read, as laid out
\* in the comment ahead of SelectiveReadDataRegion
TagResponse(bank, epc) ==
  LET head == << 136, 0, 0, 23, 0, 0, 0, 1, 1, 40, 0, 1, 0, 0 >>
      crcpc == << 184, 87, 52, 0 >>
  IN  IF bank = TMR_GEN2_BANK_EPC
      THEN Resp(TMR_SR_OPCODE_READ_TAG_ID_MULTIPLE, << 0, 0 >>, head \o crcpc \o epc)
      ELSE Resp(TMR_SR_OPCODE_READ_TAG_ID_MULTIPLE, << 0, 0 >>,
                head \o << 16, 8 >> \o crcpc \o epc
                     \o << bank * 16, Len(BankWords) \div 2 >> \o BankWords)

\* a setup command is acknowledged, or its acknowledgement arrives damaged
SetupReplies(op) ==
  { Once(Resp(op, << 0, 0 >>, << >>)), Once(BadCrc(Resp(op, << 0, 0 >>, << >>))) }

\* the response to a multi-tag read that saw no tag: status 0x0400, no data
NoTagsFound == Resp(TMR_SR_OPCODE_READ_TAG_ID_MULTIPLE, << 4, 0 >>, << >>)

\* a read finds one of three tags or none, or its response arrives damaged,
\* or the answer to another command arrives in its place; the module may also
\* have gone silent by the time of the first read (n reads were sent before)
ReadReplies(bank, n) ==
  { Once(TagResponse(bank, TagA)), Once(TagResponse(bank, TagB)),
    Once(TagResponse(bank, TagC)), Once(NoTagsFound),
    Once(BadCrc(TagResponse(bank, TagA))),
    Once(Resp(TMR_SR_OPCODE_CLEAR_TAG_ID_BUFFER, << 0, 0 >>, << >>)) }
  \cup (IF n = 0 THEN { Silent } ELSE { })

\* the filters: the whole EPC of tag A, its last two bytes, its third byte,
\* the empty pattern, and three that the validation must refuse
Filters ==
  { [EPClen |-> 12, EPCoffset |-> 0,  TMR_EPC |-> TagA],
    [EPClen |-> 2,  EPCoffset |-> 10, TMR_EPC |-> << 41, 128 >>],
    [EPClen |-> 1,  EPCoffset |-> 2,  TMR_EPC |-> << 0 >>],
    [EPClen |-> 0,  EPCoffset |-> 0,  TMR_EPC |-> << >>],
    [EPClen |-> 0,  EPCoffset |-> 12, TMR_EPC |-> << >>],
    [EPClen |-> 7,  EPCoffset |-> 6,  TMR_EPC |-> SubSeq(TagA, 7, 12) \o << 0 >>],
    [EPClen |-> 2,  EPCoffset |-> 11, TMR_EPC |-> << 128, 0 >>] }

SelRequests ==
  { [EPClen |-> f.EPClen, EPCoffset |-> f.EPCoffset, TMR_EPC |-> f.TMR_EPC,
     RetryCount |-> n, bank |-> b, address |-> w[1], length |-> w[2],
     capacity |-> w[3]] :
      f \in Filters, n \in { 0, 1, 3 },
      b \in { TMR_GEN2_BANK_EPC, TMR_GEN2_BANK_USER },
      w \in { << 0, 1, 8 >>, << 1, 2, 3 >>, << 6, 1, 8 >> } }

\* SelectiveReadDataRegion(selepc, bank, address, length, dataRead, dataLengthRead):
\* the validation, then the first setup command
SelCall ==
  /\ pc = "idle"
  /\ spc = "none"
  /\ \E s \in SelRequests :
       /\ sel' = s
       /\ retryCount' = 0
       /\ dataRead' = << >>
       /\ reads' = 0
       /\ UNCHANGED << chkVars, bankVars >>
       /\ IF InvalidEPCRequest(s)
          THEN /\ dataLengthRead' = FailedLength(s.capacity)
               /\ ret' = ERROR_INVALID_EPC_REQ
               /\ spc' = "returned"
               /\ UNCHANGED << pc, msg, messageLength, spot, x, elapsed,
                               returnedFrom, argVars, lineVars, histVars >>
          ELSE /\ dataLengthRead' = s.capacity
               /\ ret' = ret
               /\ spc' = "setup1"
               /\ \E r \in SetupReplies(TMR_SR_OPCODE_SET_READER_OPTIONAL_PARAMS) :
                    SendMessage(TMR_SR_OPCODE_SET_READER_OPTIONAL_PARAMS,
                                << 1, 8, 0 >>, COMMAND_TIME_OUT, TRUE, r)

\* disableReadFilter(): setReaderConfiguration(0x0C, 0x00)
SelSetup2 ==
  /\ pc = "done"
  /\ spc = "setup1"
  /\ spc' = "setup2"
  /\ \E r \in SetupReplies(TMR_SR_OPCODE_SET_READER_OPTIONAL_PARAMS) :
       SendMessage(TMR_SR_OPCODE_SET_READER_OPTIONAL_PARAMS,
                   << 1, 12, 0 >>, COMMAND_TIME_OUT, TRUE, r)
  /\ UNCHANGED << sel, retryCount, dataRead, dataLengthRead, ret, reads, chkVars, bankVars >>

\* sendMessage(TMR_SR_OPCODE_CLEAR_TAG_ID_BUFFER)
SelSetup3 ==
  /\ pc = "done"
  /\ spc = "setup2"
  /\ spc' = "setup3"
  /\ \E r \in SetupReplies(TMR_SR_OPCODE_CLEAR_TAG_ID_BUFFER) :
       SendMessage(TMR_SR_OPCODE_CLEAR_TAG_ID_BUFFER, << >>, COMMAND_TIME_OUT, TRUE, r)
  /\ UNCHANGED << sel, retryCount, dataRead, dataLengthRead, ret, reads, chkVars, bankVars >>

\* while (!MatchFound) sendMessage(TMR_SR_OPCODE_READ_TAG_ID_MULTIPLE, configBlob, 20)
SelRead ==
  /\ pc = "done"
  /\ spc \in { "setup3", "retry" }
  /\ reads < MaxReads
  /\ spc' = "read"
  /\ reads' = reads + 1
  /\ \E r \in ReadReplies(sel.bank, reads) :
       SendMessage(TMR_SR_OPCODE_READ_TAG_ID_MULTIPLE,
                   configBlob(sel.bank, COMMAND_TIME_OUT), COMMAND_TIME_OUT, TRUE, r)
  /\ UNCHANGED << sel, retryCount, dataRead, dataLengthRead, ret, chkVars, bankVars >>

\* what follows the read: the transport result, the match, the retry count,
\* and for a matching tag the copy of the requested words
SelEvaluate ==
  /\ pc = "done"
  /\ spc = "read"
  /\ IF TransportFailed(msg)
     THEN /\ dataLengthRead' = FailedLength(dataLengthRead)
          /\ ret' = RESPONSE_FAIL
          /\ spc' = "returned"
          /\ UNCHANGED << retryCount, dataRead >>
     ELSE IF ~MatchFound(msg, sel)
     THEN /\ retryCount' = IF RetryLimited(sel.RetryCount)
                           THEN U8(retryCount + 1) ELSE retryCount
          /\ IF RetryLimited(sel.RetryCount) /\ RetryExceeded(retryCount, sel.RetryCount)
             THEN /\ dataLengthRead' = FailedLength(dataLengthRead)
                  /\ ret' = ERROR_COMMAND_RESPONSE_TIMEOUT
                  /\ spc' = "returned"
             ELSE /\ spc' = "retry"
                  /\ UNCHANGED << dataLengthRead, ret >>
          /\ UNCHANGED dataRead
     ELSE IF Unfulfillable(msg, sel)
     THEN /\ dataLengthRead' = FailedLength(dataLengthRead)
          /\ ret' = ERROR_INVALID_REQ
          /\ spc' = "returned"
          /\ UNCHANGED << retryCount, dataRead >>
     ELSE /\ dataLengthRead' = CopyCount(sel, dataLengthRead)
          /\ \E past \in OobBytes :
               dataRead' = CopiedData(msg, sel, CopyCount(sel, dataLengthRead), past)
          /\ ret' = RESPONSE_SUCCESS
          /\ spc' = "returned"
          /\ UNCHANGED retryCount
  /\ UNCHANGED << pc, msg, messageLength, spot, x, elapsed, returnedFrom,
                  argVars, lineVars, histVars, sel, reads, chkVars, bankVars >>

InitSel ==
  /\ InitDriver
  /\ rx = << >>

\* delay(1) in the first-byte wait, taken only against a module that stays
\* silent: a module that answers does so before the driver's first poll ends
Wait1DelaySilent ==
  /\ reply = Silent
  /\ Wait1Delay

\* no time passes while a response is received
NextSel ==
  \/ SelCall
  \/ SelSetup2
  \/ SelSetup3
  \/ SelRead
  \/ SelEvaluate
  \/ Flush
  \/ WriteByte
  \/ WriteDone
  \/ Wait1Avail
  \/ Wait1DelaySilent
  \/ Wait1Timeout
  \/ BodyRead
  \/ BodyDone
  \/ CheckResponse
  \/ Deliver

SpecSel == InitSel /\ [][NextSel]_vars

\* ---------------------------------------------------------------------
\* SelectiveReadDataRegion against a module that never shows the tag asked for
\* ---------------------------------------------------------------------

\* most multi-tag reads a call with a retry limit is followed through
MaxRounds == 260

\* the retry limits: the least, the greatest below the range of the
\* counter, and the greatest a uint8_t holds
RetryCounts == { 1, 254, 255 }

\* the whole EPC of tag A is asked for, in the EPC bank
RetryRequests ==
  { [EPClen |-> 12, EPCoffset |-> 0, TMR_EPC |-> TagA,
     RetryCount |-> n, bank |-> TMR_GEN2_BANK_EPC, address |-> 0, length |-> 1,
     capacity |-> 8] : n \in RetryCounts }

\* msg after a sendMessage call whose response f came whole and was
\* accepted: the command frame, then the response over it, then ALL_GOOD
AnsweredMsg(m, op, d, f) ==
  CHOOSE r \in { [i \in MsgIndex |->
                    IF i = 0 THEN ALL_GOOD
                    ELSE IF i < Len(g) THEN g[i + 1]
                    ELSE e[i]] : e \in { EncodedMsg(m, op, d) }, g \in { f } } : TRUE

\* a sendMessage call from its first to its last statement, the module
\* answering at once with the frame f
AnsweredCall(op, d, f) ==
  /\ msg' = AnsweredMsg(msg, op, d, f)
  /\ opcode' = op
  /\ data' = d
  /\ timeOut' = COMMAND_TIME_OUT
  /\ waitForResponse' = TRUE
  /\ reply' = Once(f)
  /\ messageLength' = Len(f)
  /\ spot' = Len(f)
  /\ returnedFrom' = "check"
  /\ pc' = "done"
  /\ UNCHANGED << x, elapsed, lineVars, histVars >>

\* the call, as in SelCall, up to the loop: the three setup commands are
\* acknowledged
RetryCall ==
  /\ pc = "idle"
  /\ spc = "none"
  /\ \E s \in RetryRequests :
       /\ sel' = s
       /\ ~InvalidEPCRequest(s)
       /\ dataLengthRead' = s.capacity
  /\ retryCount' = 0
  /\ dataRead' = << >>
  /\ reads' = 0
  /\ spc' = "setup3"
  /\ AnsweredCall(TMR_SR_OPCODE_SET_READER_OPTIONAL_PARAMS, << 1, 12, 0 >>,
                  Resp(TMR_SR_OPCODE_SET_READER_OPTIONAL_PARAMS, << 0, 0 >>, << >>))
  /\ UNCHANGED << ret, chkVars, bankVars >>

\* the multi-tag read of the loop; the module answers with tag B every time
RetryRead ==
  /\ pc = "done"
  /\ spc \in { "setup3", "retry" }
  /\ reads < MaxRounds
  /\ spc' = "read"
  /\ reads' = reads + 1
  /\ AnsweredCall(TMR_SR_OPCODE_READ_TAG_ID_MULTIPLE,
                  configBlob(sel.bank, COMMAND_TIME_OUT),
                  TagResponse(sel.bank, TagB))
  /\ UNCHANGED << sel, retryCount, dataRead, dataLengthRead, ret, chkVars, bankVars >>

NextRetry ==
  \/ RetryCall
  \/ RetryRead
  \/ SelEvaluate

SpecRetry == InitSel /\ [][NextRetry]_vars

(* ------------------------------------------------------------------ *)
(* The operations that send one command and judge its response         *)
(* ------------------------------------------------------------------ *)
TMR_SR_OPCODE_WRITE_TAG_DATA == 36
TMR_SR_OPCODE_KILL_TAG == 38
TMR_SR_OPCODE_READ_TAG_DATA == 40
TMR_SR_OPCODE_SET_POWER_MODE == 152

\* data[0] = timeOut >> 8 & 0xFF; data[1] = timeOut & 0xFF;
TimeOutBytes(t) == << (t \div 256) % 256, t % 256 >>

\* data[3 + x] = address >> (8 * (3 - x)) & 0xFF, x = 0 .. 3
AddressBytes(a) ==
  << (a \div 16777216) % 256, (a \div 65536) % 256, (a \div 256) % 256, a % 256 >>

\* readData's payload: data[7] = dataLengthRead / 2, 0 for the user bank
ReadDataCommand(bank, address, len, t) ==
  TimeOutBytes(t) \o << bank >> \o AddressBytes(address)
    \o << IF bank = TMR_GEN2_BANK_USER THEN 0 ELSE len \div 2 >>

\* readDataRegion's payload: data[7] = length
ReadDataRegionCommand(bank, address, length, t) ==
  TimeOutBytes(t) \o << bank >> \o AddressBytes(address) \o << length >>

\* writeData's payload: timeout, option, address, bank, the data
WriteDataCommand(bank, address, d, t) ==
  TimeOutBytes(t) \o << 0 >> \o AddressBytes(address) \o << bank >> \o d

\* dataLengthToRecord = (dataLengthToRecord / 2) * 2
EvenPrefix(d) == SubSeq(d, 1, (Len(d) \div 2) * 2)

\* killTag's payload: timeout, option, the password, RFU
KillTagCommand(password, t) ==
  TimeOutBytes(t) \o << 0 >> \o password \o << 0 >>

\* uint16_t status = (msg[3] << 8) | msg[4];
StatusWord(m) == m[3] * 256 + m[4]

\* what the module may answer to a command with opcode op: success with one
\* of the payloads, a status other than 0000 (with and without data), a
\* damaged frame, the answer to another command
OpReplies(op, payloads) ==
  { Once(Resp(op, << 0, 0 >>, d)) : d \in payloads }
    \cup { Once(Resp(op, st, << >>)) : st \in { << 4, 0 >>, << 0, 1 >>, << 1, 5 >> } }
    \cup { Once(Resp(op, << 4, 0 >>, d)) : d \in payloads }
    \cup { Once(BadCrc(Resp(op, << 0, 0 >>, << >>))),
           Once(Resp(TMR_SR_OPCODE_VERSION, << 0, 0 >>, << >>)) }

\* what a read of a bank may return: nothing, the password words, three words
ReadPayloads == { << >>, << 238, 255, 17, 34 >>, BankWords }

\* the counters of SelectiveReadDataRegion and the state of continuous
\* reading, which these operations leave alone
OpVars == << retryCount, reads, chkVars, bankVars >>

\* bool setPowerMode(mode): nano stands for _moduleType == ThingMagic_M6E_NANO
setPowerMode ==
  /\ pc = "idle"
  /\ spc = "none"
  /\ \E mode \in { 0, 1, 4, 5 }, nano \in BOOLEAN :
       /\ sel' = [op |-> "setPowerMode", mode |-> mode, nano |-> nano]
       /\ IF mode > 4
          THEN /\ ret' = FALSE
               /\ spc' = "returned"
               /\ UNCHANGED << pc, msg, messageLength, spot, x, elapsed,
                               returnedFrom, argVars, lineVars, histVars >>
          ELSE /\ ret' = ret
               /\ spc' = "setPowerMode"
               /\ \E r \in OpReplies(TMR_SR_OPCODE_SET_POWER_MODE, { << >> }) :
                    SendMessage(TMR_SR_OPCODE_SET_POWER_MODE,
                                << IF nano /\ mode = 4 THEN 2 ELSE mode >>,
                                COMMAND_TIME_OUT, TRUE, r)
  /\ UNCHANGED << dataRead, dataLengthRead, OpVars >>

\* if (msg[0] == ALL_GOOD) return true; return false;
setPowerModeReturn ==
  /\ pc = "done"
  /\ spc = "setPowerMode"
  /\ ret' = (msg[0] = ALL_GOOD)
  /\ spc' = "returned"
  /\ UNCHANGED << pc, msg, messageLength, spot, x, elapsed, returnedFrom,
                  argVars, lineVars, histVars, sel, dataRead, dataLengthRead, OpVars >>

\* readData(bank, address, dataRead, dataLengthRead, timeOut) up to its
\* sendMessage: dataLengthRead comes in as the room the caller has
readData ==
  /\ pc = "idle"
  /\ spc = "none"
  /\ \E bank \in { TMR_GEN2_BANK_RESERVED, TMR_GEN2_BANK_USER },
        address \in { 0, 2 }, cap \in { 0, 4, 8 } :
       /\ sel' = [op |-> "readData", bank |-> bank, address |-> address, capacity |-> cap]
       /\ dataLengthRead' = cap
       /\ \E r \in OpReplies(TMR_SR_OPCODE_READ_TAG_DATA, ReadPayloads) :
            SendMessage(TMR_SR_OPCODE_READ_TAG_DATA,
                        ReadDataCommand(bank, address, cap, COMMAND_TIME_OUT),
                        COMMAND_TIME_OUT, TRUE, r)
  /\ spc' = "readData"
  /\ dataRead' = << >>
  /\ UNCHANGED << ret, OpVars >>

\* readDataRegion(bank, address, length, dataRead, dataLengthRead, timeOut)
\* up to its sendMessage
readDataRegion ==
  /\ pc = "idle"
  /\ spc = "none"
  /\ \E bank \in { TMR_GEN2_BANK_EPC, TMR_GEN2_BANK_USER },
        w \in { << 0, 2, 8 >>, << 2, 3, 4 >> } :
       /\ sel' = [op |-> "readDataRegion", bank |-> bank, address |-> w[1],
                  length |-> w[2], capacity |-> w[3]]
       /\ dataLengthRead' = w[3]
       /\ \E r \in OpReplies(TMR_SR_OPCODE_READ_TAG_DATA, ReadPayloads) :
            SendMessage(TMR_SR_OPCODE_READ_TAG_DATA,
                        ReadDataRegionCommand(bank, w[1], w[2], COMMAND_TIME_OUT),
                        COMMAND_TIME_OUT, TRUE, r)
  /\ spc' = "readDataRegion"
  /\ dataRead' = << >>
  /\ UNCHANGED << ret, OpVars >>

\* a copy of everything the response carries
ReadCountUnclamped(responseLength, room) == responseLength

\* if (responseLength < dataLengthRead) dataLengthRead = responseLength;
\* where the copy loop x < dataLengthRead stops
ReadCount(responseLength, room) == Min(responseLength, room)

\* the end of readData and of readDataRegion, the same in both: with a good
\* response and status 0000 the data is copied, clamped to what came and to
\* the room the caller has
ReadReturn ==
  /\ pc = "done"
  /\ IF msg[0] = ALL_GOOD /\ StatusWord(msg) = 0
     THEN /\ dataLengthRead' = ReadCount(msg[1], dataLengthRead)
          /\ dataRead' = [i \in 1 .. ReadCount(msg[1], dataLengthRead) |-> msg[5 + i - 1]]
          /\ ret' = RESPONSE_SUCCESS
     ELSE /\ dataLengthRead' = 0
          /\ ret' = RESPONSE_FAIL
          /\ UNCHANGED dataRead
  /\ spc' = "returned"
  /\ UNCHANGED << pc, msg, messageLength, spot, x, elapsed, returnedFrom,
                  argVars, lineVars, histVars, sel, OpVars >>

readDataReturn ==
  /\ spc = "readData"
  /\ ReadReturn

readDataRegionReturn ==
  /\ spc = "readDataRegion"
  /\ ReadReturn

\* the data a caller asks to be written: one word, and three bytes
WritePayloads == { << 0, 238 >>, << 1, 2, 3 >> }

\* writeData(bank, address, dataToRecord, dataLengthToRecord, timeOut) up to
\* its sendMessage
writeData ==
  /\ pc = "idle"
  /\ spc = "none"
  /\ \E bank \in { TMR_GEN2_BANK_RESERVED, TMR_GEN2_BANK_USER }, d \in WritePayloads :
       /\ sel' = [op |-> "writeData", bank |-> bank, address |-> 0, dataToRecord |-> d]
       /\ \E r \in OpReplies(TMR_SR_OPCODE_WRITE_TAG_DATA, { << >> }) :
            SendMessage(TMR_SR_OPCODE_WRITE_TAG_DATA,
                        WriteDataCommand(bank, 0, d, COMMAND_TIME_OUT),
                        COMMAND_TIME_OUT, TRUE, r)
  /\ spc' = "writeData"
  /\ UNCHANGED << ret, dataRead, dataLengthRead, OpVars >>

\* writeDataRegion(bank, address, dataToRecord, dataLengthToRecord, timeOut)
\* up to its sendMessage: an odd last byte is left out
writeDataRegion ==
  /\ pc = "idle"
  /\ spc = "none"
  /\ \E bank \in { TMR_GEN2_BANK_USER }, address \in { 0, 2 }, d \in WritePayloads :
       /\ sel' = [op |-> "writeDataRegion", bank |-> bank, address |-> address,
                  dataToRecord |-> d]
       /\ \E r \in OpReplies(TMR_SR_OPCODE_WRITE_TAG_DATA, { << >> }) :
            SendMessage(TMR_SR_OPCODE_WRITE_TAG_DATA,
                        WriteDataCommand(bank, address, EvenPrefix(d), COMMAND_TIME_OUT),
                        COMMAND_TIME_OUT, TRUE, r)
  /\ spc' = "writeDataRegion"
  /\ UNCHANGED << ret, dataRead, dataLengthRead, OpVars >>

\* killTag(password, passwordLength, timeOut) up to its sendMessage
killTag ==
  /\ pc = "idle"
  /\ spc = "none"
  /\ \E password \in { << 0, 0, 0, 0 >>, << 238, 255, 17, 34 >> } :
       /\ sel' = [op |-> "killTag", password |-> password]
       /\ \E r \in OpReplies(TMR_SR_OPCODE_KILL_TAG, { << >> }) :
            SendMessage(TMR_SR_OPCODE_KILL_TAG,
                        KillTagCommand(password, COMMAND_TIME_OUT),
                        COMMAND_TIME_OUT, TRUE, r)
  /\ spc' = "killTag"
  /\ UNCHANGED << ret, dataRead, dataLengthRead, OpVars >>

\* the end of writeData, writeDataRegion and killTag, the same in all three:
\* success with a good response and status 0000 only
StatusReturn ==
  /\ pc = "done"
  /\ ret' = IF msg[0] = ALL_GOOD /\ StatusWord(msg) = 0
            THEN RESPONSE_SUCCESS ELSE RESPONSE_FAIL
  /\ spc' = "returned"
  /\ UNCHANGED << pc, msg, messageLength, spot, x, elapsed, returnedFrom,
                  argVars, lineVars, histVars, sel, dataRead, dataLengthRead, OpVars >>

writeDataReturn ==
  /\ spc = "writeData"
  /\ StatusReturn

writeDataRegionReturn ==
  /\ spc = "writeDataRegion"
  /\ StatusReturn

killTagReturn ==
  /\ spc = "killTag"
  /\ StatusReturn

InitOps ==
  /\ InitDriver
  /\ rx = << >>

\* one operation on a module that answers at once
NextOps ==
  \/ setPowerMode
  \/ setPowerModeReturn
  \/ readData
  \/ readDataReturn
  \/ readDataRegion
  \/ readDataRegionReturn
  \/ writeData
  \/ writeDataReturn
  \/ writeDataRegion
  \/ writeDataRegionReturn
  \/ killTag
  \/ killTagReturn
  \/ Flush
  \/ WriteByte
  \/ WriteDone
  \/ Wait1Avail
  \/ BodyRead
  \/ BodyDone
  \/ CheckResponse
  \/ Deliver

SpecOps == InitOps /\ [][NextOps]_vars

(* ------------------------------------------------------------------ *)
(* Continuous reading: startReading, check, parseResponse              *)
(* ------------------------------------------------------------------ *)
ERROR_UNKNOWN_OPCODE == 4
RESPONSE_IS_TEMPERATURE == 5
RESPONSE_IS_KEEPALIVE == 6
RESPONSE_IS_TEMPTHROTTLE == 7
RESPONSE_IS_TAGFOUND == 8
RESPONSE_IS_UNKNOWN == 10

\* the byte at index i of msg as the code reads it: an index outside the
\* array reads past
MsgAt(m, i, past) == IF i \in MsgIndex THEN m[i] ELSE past

\* a status word put together low byte first
statusMsgSwapped(m) == m[4] * 256 + m[3]

\* for (x = 0; x < 2; x++) statusMsg |= (uint32_t)msg[3 + x] << (8 * (1 - x));
statusMsg(m) == m[3] * 256 + m[4]

\* what parseResponse makes of an opcode 0x22 frame whose CRC it accepted;
\* statusMsg is computed for a length byte of 0 only and is 0 elsewhere, and
\* the branches that return nothing fall through to the last return
Classify(m) ==
  IF m[1] = 0
  THEN IF statusMsg(m) = 1024 THEN RESPONSE_IS_KEEPALIVE
       ELSE IF statusMsg(m) = 1284 THEN RESPONSE_IS_TEMPTHROTTLE
       ELSE ERROR_UNKNOWN_OPCODE
  ELSE IF m[1] = 8 THEN RESPONSE_IS_UNKNOWN
  ELSE IF m[1] = 14 THEN ERROR_UNKNOWN_OPCODE
  ELSE IF m[1] = 10 THEN RESPONSE_IS_TEMPERATURE
  ELSE RESPONSE_IS_TAGFOUND

\* uint8_t msgLength = msg[1] + 7; the CRC is computed over msgLength - 3
\* bytes from msg[1] on (a uint8_t count) and compared with
\* msg[msgLength - 2] and msg[msgLength - 1]
CrcRefused(m, past) ==
  LET msgLength == U8(m[1] + 7)
      len == U8(msgLength - 3)
      messageCRC == CHOOSE c \in { calculateCRC([i \in 1 .. len |-> MsgAt(m, i, past)], len) } : TRUE
  IN  \/ MsgAt(m, msgLength - 2, past) # messageCRC \div 256
      \/ MsgAt(m, msgLength - 1, past) # messageCRC % 256

\* uint8_t RFID::parseResponse(void)
ParseResponse(m, past) ==
  IF CrcRefused(m, past) THEN ERROR_CORRUPT_RESPONSE
  ELSE IF m[2] = TMR_SR_OPCODE_READ_TAG_ID_MULTIPLE THEN Classify(m)
  ELSE ERROR_UNKNOWN_OPCODE

\* frames of continuous reading: the temperature throttle, a tag record (the
\* example ahead of parseResponse, cut after the frequency), the stats update
\* with a temperature of 27, the 14-byte form of the keep-alive, and a record
\* of 8 bytes
Throttle == Resp(TMR_SR_OPCODE_READ_TAG_ID_MULTIPLE, << 5, 4 >>, << >>)
TagRecord ==
  Resp(TMR_SR_OPCODE_READ_TAG_ID_MULTIPLE, << 0, 0 >>,
       << 16, 0, 27, 1, 255, 1, 1, 196, 17, 14, 22, 64 >>)
StatsUpdate ==
  Resp(TMR_SR_OPCODE_READ_TAG_ID_MULTIPLE, << 0, 0 >>,
       << 0, 1, 31, 2, 130, 0, 130, 0, 1, 27 >>)
ScanIndication ==
  Resp(TMR_SR_OPCODE_READ_TAG_ID_MULTIPLE, << 4, 0 >>,
       << 0, 1, 31, 0, 0, 0, 0, 0, 1, 40, 0, 0, 0, 0 >>)
ShortRecord ==
  Resp(TMR_SR_OPCODE_READ_TAG_ID_MULTIPLE, << 0, 0 >>, << 0, 1, 31, 0, 0, 0, 0, 0 >>)

\* a stats update whose value has two data bytes (msg[13] = 2)
StatsUpdateWide ==
  Resp(TMR_SR_OPCODE_READ_TAG_ID_MULTIPLE, << 0, 0 >>,
       << 0, 1, 31, 2, 130, 0, 130, 0, 2, 0, 27 >>)

\* the start of a frame that announces 254 bytes of data, more than msg can
\* hold: header, length, opcode 0x22, and two bytes that are the CRC of the
\* length and the opcode
Overlong ==
  LET crc == calculateCRC(<< 254, TMR_SR_OPCODE_READ_TAG_ID_MULTIPLE >>, 2)
  IN  << HEADER, 254, TMR_SR_OPCODE_READ_TAG_ID_MULTIPLE, crc \div 256, crc % 256 >>

\* a stats update whose temperature byte has its top bit set
StatsUpdateHot ==
  Resp(TMR_SR_OPCODE_READ_TAG_ID_MULTIPLE, << 0, 0 >>,
       << 0, 1, 31, 2, 130, 0, 130, 0, 1, 200 >>)

StreamFrames ==
  { KeepAlive, Throttle, TagRecord, StatsUpdate, ScanIndication, ShortRecord,
    StatsUpdateWide, StatsUpdateHot,
    Resp(TMR_SR_OPCODE_VERSION, << 0, 0 >>, << >>),
    BadCrc(KeepAlive), BadCrc(TagRecord), BadCrc(StatsUpdate) }

\* what the module sends while the reader polls: one frame, two in a row,
\* a frame after two stray bytes, the start of an overlong one
Streams ==
  StreamFrames
    \cup { f \o g : f \in { KeepAlive, TagRecord, StatsUpdate }, g \in { KeepAlive, TagRecord } }
    \cup { << 1, 2 >> \o TagRecord, Overlong }

\* startReading(): disableReadFilter() is sent first
startReading ==
  /\ pc = "idle"
  /\ spc = "none"
  /\ cpc = "idle"
  /\ spc' = "start1"
  /\ \E r \in SetupReplies(TMR_SR_OPCODE_SET_READER_OPTIONAL_PARAMS) :
       SendMessage(TMR_SR_OPCODE_SET_READER_OPTIONAL_PARAMS,
                   << 1, 12, 0 >>, COMMAND_TIME_OUT, TRUE, r)
  /\ UNCHANGED << sel, retryCount, dataRead, dataLengthRead, ret, reads, chkVars, bankVars >>

\* _continuousModeTemp = true; _contTemp = 0; then the blob is sent
startReadingBlob ==
  /\ pc = "done"
  /\ spc = "start1"
  /\ spc' = "start2"
  /\ _continuousModeTemp' = TRUE
  /\ _contTemp' = 0
  /\ \E r \in SetupReplies(TMR_SR_OPCODE_MULTI_PROTOCOL_TAG_OP) :
       SendMessage(TMR_SR_OPCODE_MULTI_PROTOCOL_TAG_OP,
                   << 0, 0, 1, 34, 0, 0, 5, 9, 34, 16, 1, 27, 3, 232, 1, 255, 1, 0 >>,
                   COMMAND_TIME_OUT, TRUE, r)
  /\ UNCHANGED << sel, retryCount, dataRead, dataLengthRead, ret, reads, bankVars,
                  _head, cpc, checkReturn, lastComplete, consumed, parseReturn >>

\* startReading() returns
startReadingReturn ==
  /\ pc = "done"
  /\ spc = "start2"
  /\ spc' = "reading"
  /\ UNCHANGED << pc, msg, messageLength, spot, x, elapsed, returnedFrom,
                  argVars, lineVars, histVars,
                  sel, retryCount, dataRead, dataLengthRead, ret, reads, chkVars, bankVars >>

\* no call of the library is running
Polling == pc \in { "idle", "done" } /\ spc \in { "none", "reading" }

\* the module begins to send: on a reader that was only constructed, or
\* after startReading()
Stream ==
  /\ Polling
  /\ cpc = "idle"
  /\ cpc' = "ready"
  /\ \E s \in Streams : wire' = s
  /\ UNCHANGED << pc, msg, messageLength, spot, x, elapsed, returnedFrom,
                  argVars, rx, tx, stream, histVars,
                  spc, sel, retryCount, dataRead, dataLengthRead, ret, reads, bankVars,
                  _head, _continuousModeTemp, _contTemp, checkReturn,
                  lastComplete, consumed, parseReturn >>

\* a byte of the stream reaches the UART
Arrive ==
  /\ Polling
  /\ cpc # "idle"
  /\ wire # << >>
  /\ Len(rx) < RxCap
  /\ rx' = Append(rx, Head(wire))
  /\ wire' = Tail(wire)
  /\ UNCHANGED << pc, msg, messageLength, spot, x, elapsed, returnedFrom,
                  argVars, tx, stream, histVars, selVars >>

\* bool RFID::check(): the call
CheckCall ==
  /\ Polling
  /\ cpc \in { "ready", "returned" }
  /\ cpc' = "loop"
  /\ lastComplete' = << >>
  /\ consumed' = 0
  /\ parseReturn' = NoResult
  /\ UNCHANGED << pc, msg, messageLength, spot, x, elapsed, returnedFrom,
                  argVars, lineVars, histVars,
                  spc, sel, retryCount, dataRead, dataLengthRead, ret, reads, bankVars,
                  _head, _continuousModeTemp, _contTemp, checkReturn >>

\* for (x = _head; x < MAX_MSG_SIZE; x++) msg[x] = 0;
Erased(m, from) == [i \in MsgIndex |-> IF i >= from THEN 0 ELSE m[i]]

\* a cache as wide as the byte
AsByte(v) == v

\* _contTemp = msg[14], an int8_t
AsInt8(v) == IF v >= 128 THEN v - 256 ELSE v

\* what check() returns at once for the frame it completed; FALSE also
\* stands for the case in which it does not return but reads on
\* (_continuousModeTemp false)
FrameReported(temp, m) == temp /\ (m[5] = 16 \/ m[3] = 4)

\* a position that is only as wide as its uint8_t
WrappedAsUint8(h) == h % 256

\* a position that stays at the last index of msg
Saturated(h) == IF h >= MAX_MSG_SIZE THEN MAX_MSG_SIZE - 1 ELSE h

\* _head %= MAX_MSG_SIZE
Wrapped(h) == h % MAX_MSG_SIZE

\* a reader that stores every byte, header or not
IgnoredByteNever(head_, incomingData) == FALSE

\* if (_head == 0 && incomingData != 0xFF): ignore this byte
IgnoredByte(head_, incomingData) == head_ = 0 /\ incomingData # HEADER

\* one turn of while (_rfidSerial->available()): a byte is read and, unless
\* it is dropped ahead of a header, stored; a frame that is complete erases
\* the rest of msg and, in temperature mode, ends the call
CheckByte ==
  /\ cpc = "loop"
  /\ rx # << >>
  /\ rx' = Tail(rx)
  /\ consumed' = Min(consumed + 1, MaxConsumed)
  /\ LET incomingData == Head(rx)
         m1 == [msg EXCEPT ![_head] = incomingData]
         h1 == Wrapped(_head + 1)
     IN  IF IgnoredByte(_head, incomingData)
         THEN UNCHANGED << msg, _head, _contTemp, cpc, checkReturn, lastComplete >>
         ELSE IF h1 > 0 /\ h1 = m1[1] + 7
         THEN LET m2 == Erased(m1, h1)
              IN  /\ msg' = m2
                  /\ _head' = 0
                  /\ lastComplete' = MsgBytes(m2, 0, h1)
                  /\ IF _continuousModeTemp
                     THEN /\ cpc' = "returned"
                          /\ checkReturn' = FrameReported(_continuousModeTemp, m2)
                          /\ _contTemp' =
                               IF /\ ~FrameReported(_continuousModeTemp, m2)
                                  /\ m2[8] = 2
                                  /\ m2[13] = 1
                                  /\ m2[11] = 130
                               THEN AsInt8(m2[14]) ELSE _contTemp
                     ELSE UNCHANGED << cpc, checkReturn, _contTemp >>
         ELSE /\ msg' = m1
              /\ _head' = h1
              /\ UNCHANGED << _contTemp, cpc, checkReturn, lastComplete >>
  /\ UNCHANGED << pc, messageLength, spot, x, elapsed, returnedFrom,
                  argVars, tx, wire, stream, histVars,
                  spc, sel, retryCount, dataRead, dataLengthRead, ret, reads, bankVars,
                  _continuousModeTemp, parseReturn >>

\* the loop ends with nothing left to read: return (false)
CheckReturn ==
  /\ cpc = "loop"
  /\ rx = << >>
  /\ cpc' = "returned"
  /\ checkReturn' = FALSE
  /\ UNCHANGED << pc, msg, messageLength, spot, x, elapsed, returnedFrom,
                  argVars, lineVars, histVars,
                  spc, sel, retryCount, dataRead, dataLengthRead, ret, reads, bankVars,
                  _head, _continuousModeTemp, _contTemp, lastComplete, consumed,
                  parseReturn >>

\* parseResponse() on whatever msg holds between two calls of check()
parseResponse ==
  /\ Polling
  /\ cpc \in { "ready", "returned" }
  /\ parseReturn = NoResult
  /\ \E past \in OobBytes : parseReturn' = ParseResponse(msg, past)
  /\ UNCHANGED << pc, msg, messageLength, spot, x, elapsed, returnedFrom,
                  argVars, lineVars, histVars,
                  spc, sel, retryCount, dataRead, dataLengthRead, ret, reads, bankVars,
                  _head, _continuousModeTemp, _contTemp, cpc, checkReturn,
                  lastComplete, consumed >>

InitCheck ==
  /\ InitDriver
  /\ rx = << >>

NextCheck ==
  \/ startReading
  \/ startReadingBlob
  \/ startReadingReturn
  \/ Stream
  \/ Arrive
  \/ CheckCall
  \/ CheckByte
  \/ CheckReturn
  \/ parseResponse
  \/ Flush
  \/ WriteByte
  \/ WriteDone
  \/ Wait1Avail
  \/ BodyRead
  \/ BodyDone
  \/ CheckResponse
  \/ Deliver

SpecCheck == InitCheck /\ [][NextCheck]_vars

\* ---------------------------------------------------------------------
\* check() on frames of every size that msg can and cannot hold
\* ---------------------------------------------------------------------

\* a tag record with n bytes after the status word, the first of them the
\* option byte 0x10 of continuous reading
RecordOf(n) ==
  Resp(TMR_SR_OPCODE_READ_TAG_ID_MULTIPLE, << 0, 0 >>, << 16 >> \o Payload(n - 1))

\* sizes of the records: 254 bytes in all, 255 (all of msg) and 256
LongSizes == { 247, 248, 249 }

LongFrames == { KeepAlive, TagRecord } \cup { RecordOf(n) : n \in LongSizes }

\* n bytes of value v
Fill(v, n) == [i \in 1 .. n |-> v]

\* bytes that are no frame: a header and a length byte of 255 ahead of 258
\* zeros, 260 header bytes in a row, a header and a length byte of 250 ahead
\* of 254 bytes and a keep-alive
Garbled ==
  { << HEADER, 255 >> \o Fill(0, 258),
    Fill(HEADER, 260),
    << HEADER, 250 >> \o Fill(7, 254) \o KeepAlive }

\* a frame, a frame behind a shorter or longer one, or no frame
LongStreams ==
  LongFrames \cup { f \o g : f, g \in { KeepAlive, TagRecord } } \cup Garbled

\* the module sends one of these streams
StreamLong ==
  /\ Polling
  /\ cpc = "idle"
  /\ cpc' = "ready"
  /\ \E s \in LongStreams : wire' = s
  /\ UNCHANGED << pc, msg, messageLength, spot, x, elapsed, returnedFrom,
                  argVars, rx, tx, stream, histVars,
                  spc, sel, retryCount, dataRead, dataLengthRead, ret, reads, bankVars,
                  _head, _continuousModeTemp, _contTemp, checkReturn,
                  lastComplete, consumed, parseReturn >>

NextLong ==
  \/ startReading
  \/ startReadingBlob
  \/ startReadingReturn
  \/ StreamLong
  \/ Arrive
  \/ CheckCall
  \/ CheckByte
  \/ CheckReturn
  \/ Flush
  \/ WriteByte
  \/ WriteDone
  \/ Wait1Avail
  \/ BodyRead
  \/ BodyDone
  \/ CheckResponse
  \/ Deliver

SpecLong == InitCheck /\ [][NextLong]_vars

\* ---------------------------------------------------------------------
\* getTagTimestamp on a tag record held in msg
\* ---------------------------------------------------------------------

\* values of each of the four timestamp bytes
StampBytes == { 0, 1, 128, 255 }

\* a tag record as check() leaves it in msg: option byte, search flags,
\* metadata flags, tag count, read count, RSSI, antenna, frequency (3),
\* timestamp (4), phase (2), protocol, data length (2)
StampedRecord(t) ==
  LET f == Resp(TMR_SR_OPCODE_READ_TAG_ID_MULTIPLE, << 0, 0 >>,
                << 16, 1, 31, 15, 255, 1, 1, 221, 17, 13, 55, 252 >> \o t
                  \o << 0, 174, 5, 0, 0 >>)
  IN  [i \in MsgIndex |-> IF i < Len(f) THEN f[i + 1] ELSE 0]

\* uint32_t timeStamp; timeStamp |= (uint32_t)msg[17 + x] << (8 * (3 - x)):
\* the 32 bits as their high and low 16-bit words
TimeStamp32(m) == << m[17] * 256 + m[18], m[19] * 256 + m[20] >>

\* return (timeStamp) from a function declared uint16_t: the low word stays
ReturnedAsUint16(w) == << 0, w[2] >>

\* uint16_t RFID::getTagTimestamp(void)
getTagTimestamp(m) == ReturnedAsUint16(TimeStamp32(m))

\* check() has completed a tag record
RecordHeld ==
  /\ pc = "idle"
  /\ spc = "none"
  /\ spc' = "record"
  /\ \E t \in [1 .. 4 -> StampBytes] : msg' = StampedRecord(t)
  /\ UNCHANGED << pc, messageLength, spot, x, elapsed, returnedFrom,
                  argVars, lineVars, histVars,
                  sel, retryCount, dataRead, dataLengthRead, ret, reads, chkVars, bankVars >>

\* the caller asks for the timestamp of the record
TagTimestampCall ==
  /\ spc = "record"
  /\ spc' = "stamped"
  /\ ret' = getTagTimestamp(msg)
  /\ UNCHANGED << pc, msg, messageLength, spot, x, elapsed, returnedFrom,
                  argVars, lineVars, histVars,
                  sel, retryCount, dataRead, dataLengthRead, reads, chkVars, bankVars >>

NextStamp ==
  \/ RecordHeld
  \/ TagTimestampCall

SpecStamp == InitCheck /\ [][NextStamp]_vars

\* ---------------------------------------------------------------------
\* Responses and stream frames with one bit flipped on the line
\* ---------------------------------------------------------------------

\* the byte v with its bit b inverted
FlipBit(v, b) == IF (v \div (2 ^ b)) % 2 = 1 THEN v - 2 ^ b ELSE v + 2 ^ b

\* the frame f with bit b of its i-th byte inverted (f is counted from 1:
\* header, length, opcode, status, payload, CRC)
Flipped(f, i, b) == [f EXCEPT ![i] = FlipBit(f[i], b)]

\* every frame that differs from f in one bit behind the length byte
FlipsOf(f) == { Flipped(f, i, b) : i \in 3 .. Len(f), b \in 0 .. 7 }

\* payload sizes of the command responses
FlipSizes == { 0, 1, 2 }

\* a command is answered by a response with one bit flipped
CallFlip ==
  /\ pc = "idle"
  /\ spc = "none"
  /\ cpc = "idle"
  /\ \E n \in FlipSizes :
       \E f \in FlipsOf(Resp(TMR_SR_OPCODE_VERSION, << 0, 0 >>, Payload(n))) :
         SendMessage(TMR_SR_OPCODE_VERSION, << >>, COMMAND_TIME_OUT, TRUE, Once(f))
  /\ UNCHANGED selVars

\* the module streams a keep-alive or a tag record with one bit flipped
StreamFlip ==
  /\ pc = "idle"
  /\ spc = "none"
  /\ cpc = "idle"
  /\ cpc' = "ready"
  /\ \E g \in { KeepAlive, TagRecord } : \E f \in FlipsOf(g) : wire' = f
  /\ UNCHANGED << pc, msg, messageLength, spot, x, elapsed, returnedFrom,
                  argVars, rx, tx, stream, histVars,
                  spc, sel, retryCount, dataRead, dataLengthRead, ret, reads, bankVars,
                  _head, _continuousModeTemp, _contTemp, checkReturn,
                  lastComplete, consumed, parseReturn >>

NextFlip ==
  \/ CallFlip
  \/ StreamFlip
  \/ Arrive
  \/ CheckCall
  \/ CheckByte
  \/ CheckReturn
  \/ parseResponse
  \/ Flush
  \/ WriteByte
  \/ WriteDone
  \/ Wait1Avail
  \/ BodyRead
  \/ BodyDone
  \/ CheckResponse
  \/ Deliver

SpecFlip == InitCheck /\ [][NextFlip]_vars

\* ---------------------------------------------------------------------
\* A command between two calls of check()
\* ---------------------------------------------------------------------

\* what the module had sent when the caller turned to a command: a whole
\* keep-alive, or the beginning of a frame (a header, three bytes of a tag
\* record, the start of an overlong frame)
BeforeCommand == { KeepAlive, << HEADER >>, SubSeq(TagRecord, 1, 3), Overlong }

\* the frames of the reading that the command starts
AfterCommand == { KeepAlive, TagRecord }

\* the module sends, the reader polls it with check()
StreamBefore ==
  /\ pc = "idle"
  /\ spc = "none"
  /\ cpc = "idle"
  /\ cpc' = "ready"
  /\ \E s \in BeforeCommand : wire' = s
  /\ UNCHANGED << pc, msg, messageLength, spot, x, elapsed, returnedFrom,
                  argVars, rx, tx, stream, histVars,
                  spc, sel, retryCount, dataRead, dataLengthRead, ret, reads, bankVars,
                  _head, _continuousModeTemp, _contTemp, checkReturn,
                  lastComplete, consumed, parseReturn >>

\* startReading() after check() has returned and the line is quiet:
\* disableReadFilter() is sent first
startReadingAfterCheck ==
  /\ pc = "idle"
  /\ spc = "none"
  /\ cpc = "returned"
  /\ rx = << >>
  /\ wire = << >>
  /\ spc' = "start1"
  /\ \E r \in SetupReplies(TMR_SR_OPCODE_SET_READER_OPTIONAL_PARAMS) :
       SendMessage(TMR_SR_OPCODE_SET_READER_OPTIONAL_PARAMS,
                   << 1, 12, 0 >>, COMMAND_TIME_OUT, TRUE, r)
  /\ UNCHANGED << sel, retryCount, dataRead, dataLengthRead, ret, reads, chkVars, bankVars >>

\* the reading has started: the module sends a frame
StreamAfter ==
  /\ pc = "done"
  /\ spc = "reading"
  /\ cpc = "returned"
  /\ rx = << >>
  /\ wire = << >>
  /\ reads = 0
  /\ reads' = 1
  /\ \E s \in AfterCommand : wire' = s
  /\ UNCHANGED << pc, msg, messageLength, spot, x, elapsed, returnedFrom,
                  argVars, rx, tx, stream, histVars,
                  spc, sel, retryCount, dataRead, dataLengthRead, ret, bankVars,
                  chkVars >>

NextMix ==
  \/ StreamBefore
  \/ startReadingAfterCheck
  \/ startReadingBlob
  \/ startReadingReturn
  \/ StreamAfter
  \/ Arrive
  \/ CheckCall
  \/ CheckByte
  \/ CheckReturn
  \/ Flush
  \/ WriteByte
  \/ WriteDone
  \/ Wait1Avail
  \/ BodyRead
  \/ BodyDone
  \/ CheckResponse
  \/ Deliver

SpecMix == InitCheck /\ [][NextMix]_vars

(* ------------------------------------------------------------------ *)
(* ReadingAllBanks                                                     *)
(* ------------------------------------------------------------------ *)
TMR_SR_OPCODE_GET_TAG_ID_BUFFER == 41
RESPONSE_IS_NOTAGFOUND == 9

\* uint8_t configBlob[] of ReadingAllBanks: timeout 500 ms, all banks
AllBanksBlob ==
  << 136, 16, 0, 23, 1, 244, 15, 255, 1, 9, 40, 7, 208, 0, 63, 0, 0, 0, 0, 0 >>

\* uint8_t flags[] = {0xf, 0xff, 0x00}
TagBufferFlags == << 15, 255, 0 >>

\* uint8_t offset = 24: where the bank blocks start in the tag buffer response
BankOffset == 24

\* uint16_t datalength = (msg[22] << 8 | msg[23]) / 8
Datalength(m) == (m[22] * 256 + m[23]) \div 8

(* the module's answers *)
\* one bank block on the wire: the bank in the high nibble, the word count,
\* the words
Block(bank, words) == << bank * 16, Len(words) \div 2 >> \o words

UserWords == [k \in 1 .. 64 |-> 100 + k]
ReservedWords == << 1, 35, 69, 103, 137, 171, 205, 239 >>
EpcWords == << 120, 222, 48, 0 >> \o TagA
TidWords ==
  << 226, 0, 52, 18, 1, 95, 255, 0, 6, 47, 125, 187,
     2, 25, 1, 92, 48, 13, 95, 251, 255, 255, 220, 0 >>
\* an EPC bank of 20 words: CRC, PC and 36 further bytes
LongEpcWords == << 120, 222, 160, 0 >> \o [k \in 1 .. 36 |-> 200 + k]

\* the bank blocks a tag buffer response may carry: the four banks in the
\* order of the typical response, three of them in another order, an EPC
\* bank of 20 words, no data at all, a block of an unknown bank between two
\* good ones, and an unknown bank after user memory that reads as zeros
BankLayouts ==
  { Block(TMR_GEN2_BANK_USER, UserWords) \o Block(TMR_GEN2_BANK_RESERVED, ReservedWords)
      \o Block(TMR_GEN2_BANK_EPC, EpcWords) \o Block(TMR_GEN2_BANK_TID, TidWords),
    Block(TMR_GEN2_BANK_EPC, EpcWords) \o Block(TMR_GEN2_BANK_TID, TidWords)
      \o Block(TMR_GEN2_BANK_USER, << 255, 241, 17, 34 >>),
    Block(TMR_GEN2_BANK_EPC, LongEpcWords),
    << >>,
    Block(TMR_GEN2_BANK_EPC, EpcWords) \o Block(4, << 170, 187 >>)
      \o Block(TMR_GEN2_BANK_TID, << 226, 0, 52, 18 >>),
    Block(TMR_GEN2_BANK_USER, << 0, 0, 0, 0, 0, 0, 0, 0 >>) \o Block(4, << 0, 0 >>) }

\* the response to GET_TAG_ID_BUFFER for one tag, as laid out in the comment
\* of ReadingAllBanks: metadata flags, number of entries, read count, RSSI,
\* antenna, frequency, timestamp, phase, protocol, length of the bank data
\* in bits, the bank blocks, then GPIO, target, EPC length, PC word, EPC, CRC
TagBufferResponse(blocks) ==
  Resp(TMR_SR_OPCODE_GET_TAG_ID_BUFFER, << 0, 0 >>,
       << 15, 255, 0, 1, 1, 233, 17, 14, 14, 112, 0, 0, 0, 57, 0, 174, 5,
          (Len(blocks) * 8) \div 256, (Len(blocks) * 8) % 256 >>
         \o blocks
         \o << 128, 2, 0, 0, 0, 128, 48, 0 >> \o TagA \o << 120, 222 >>)

TagBufferReplies ==
  { Once(TagBufferResponse(b)) : b \in BankLayouts }
    \cup { Once(BadCrc(TagBufferResponse(<< >>))) }

\* the response to the multi-tag read with the embedded bank read: the
\* counters of successful and failed reads at msg[15..18]
MultiReadResponse(succes, failure) ==
  Resp(TMR_SR_OPCODE_READ_TAG_ID_MULTIPLE, << 0, 0 >>,
       << 136, 0, 0, 23, 0, 0, 0, 1, 1, 40,
          succes \div 256, succes % 256, failure \div 256, failure % 256 >>)

MultiReadReplies ==
  { Once(MultiReadResponse(1, 0)), Once(MultiReadResponse(0, 1)),
    Once(NoTagsFound), Once(BadCrc(MultiReadResponse(1, 0))) }

\* the room the caller gives the four lists
BankCapacities ==
  { [user |-> 64, tid |-> 32, reserved |-> 8, epc |-> 64],
    [user |-> 3, tid |-> 2, reserved |-> 4, epc |-> 6] }

\* ReadingAllBanks(read): disableReadFilter() is sent first
ReadingAllBanks ==
  /\ pc = "idle"
  /\ spc = "none"
  /\ spc' = "banks1"
  /\ sel' = [op |-> "ReadingAllBanks"]
  /\ \E caps \in BankCapacities : read' = FreshRead(caps)
  /\ bankIdx' = 0
  /\ \E r \in SetupReplies(TMR_SR_OPCODE_SET_READER_OPTIONAL_PARAMS) :
       SendMessage(TMR_SR_OPCODE_SET_READER_OPTIONAL_PARAMS,
                   << 1, 12, 0 >>, COMMAND_TIME_OUT, TRUE, r)
  /\ UNCHANGED << retryCount, dataRead, dataLengthRead, ret, reads, chkVars >>

\* sendMessage(TMR_SR_OPCODE_CLEAR_TAG_ID_BUFFER)
BanksClear ==
  /\ pc = "done"
  /\ spc = "banks1"
  /\ spc' = "banks2"
  /\ SendMessage(TMR_SR_OPCODE_CLEAR_TAG_ID_BUFFER, << >>, COMMAND_TIME_OUT, TRUE,
                 Once(Resp(TMR_SR_OPCODE_CLEAR_TAG_ID_BUFFER, << 0, 0 >>, << >>)))
  /\ UNCHANGED << sel, retryCount, dataRead, dataLengthRead, ret, reads, chkVars, bankVars >>

\* sendMessage(TMR_SR_OPCODE_READ_TAG_ID_MULTIPLE, configBlob, sizeof(configBlob))
BanksRead ==
  /\ pc = "done"
  /\ spc = "banks2"
  /\ spc' = "banks3"
  /\ \E r \in MultiReadReplies :
       SendMessage(TMR_SR_OPCODE_READ_TAG_ID_MULTIPLE, AllBanksBlob,
                   COMMAND_TIME_OUT, TRUE, r)
  /\ UNCHANGED << sel, retryCount, dataRead, dataLengthRead, ret, reads, chkVars, bankVars >>

\* if (msg[0] != ALL_GOOD) return RESPONSE_FAIL; after the multi-tag read
BanksReadFailed ==
  /\ pc = "done"
  /\ spc = "banks3"
  /\ msg[0] # ALL_GOOD
  /\ ret' = RESPONSE_FAIL
  /\ spc' = "returned"
  /\ UNCHANGED << pc, msg, messageLength, spot, x, elapsed, returnedFrom,
                  argVars, lineVars, histVars,
                  sel, retryCount, dataRead, dataLengthRead, reads, chkVars, bankVars >>

\* read->TagCount, read->succesCount, read->failureCount as read from msg
Counted(r, m) ==
  [r EXCEPT !.TagCount = m[11] * 256 + m[12],
            !.succesCount = m[15] * 256 + m[16],
            !.failureCount = m[17] * 256 + m[18]]

\* a test for no tag that never holds
NoTagReadNever(m) == FALSE

\* if (read->succesCount == 0)
NoTagRead(m) == m[15] * 256 + m[16] = 0

\* the counters are stored and no tag was read: return RESPONSE_IS_NOTAGFOUND
BanksNoTag ==
  /\ pc = "done"
  /\ spc = "banks3"
  /\ msg[0] = ALL_GOOD
  /\ NoTagRead(msg)
  /\ read' = Counted(read, msg)
  /\ ret' = RESPONSE_IS_NOTAGFOUND
  /\ spc' = "returned"
  /\ UNCHANGED << pc, msg, messageLength, spot, x, elapsed, returnedFrom,
                  argVars, lineVars, histVars,
                  sel, retryCount, dataRead, dataLengthRead, reads, chkVars, bankIdx >>

\* the counters are stored, a tag was read:
\* sendMessage(TMR_SR_OPCODE_GET_TAG_ID_BUFFER, flags, sizeof(flags))
BanksGetBuffer ==
  /\ pc = "done"
  /\ spc = "banks3"
  /\ msg[0] = ALL_GOOD
  /\ ~NoTagRead(msg)
  /\ read' = Counted(read, msg)
  /\ spc' = "banks4"
  /\ \E r \in TagBufferReplies :
       SendMessage(TMR_SR_OPCODE_GET_TAG_ID_BUFFER, TagBufferFlags,
                   COMMAND_TIME_OUT, TRUE, r)
  /\ UNCHANGED << sel, retryCount, dataRead, dataLengthRead, ret, reads, chkVars, bankIdx >>

\* if (msg[0] != ALL_GOOD) return RESPONSE_FAIL; after the tag buffer read
BanksBufferFailed ==
  /\ pc = "done"
  /\ spc = "banks4"
  /\ msg[0] # ALL_GOOD
  /\ ret' = RESPONSE_FAIL
  /\ spc' = "returned"
  /\ UNCHANGED << pc, msg, messageLength, spot, x, elapsed, returnedFrom,
                  argVars, lineVars, histVars,
                  sel, retryCount, dataRead, dataLengthRead, reads, chkVars, bankVars >>

\* RSSI, frequency and timestamp are taken from the first entry, and the
\* loop over the bank blocks starts with i = 0
BanksMetadata ==
  /\ pc = "done"
  /\ spc = "banks4"
  /\ msg[0] = ALL_GOOD
  /\ read' = [read EXCEPT !.rssi = msg[10] - 256,
                          !.frequency = (msg[12] * 256 + msg[13]) * 256 + msg[14],
                          !.timestamp = ((msg[15] * 256 + msg[16]) * 256 + msg[17]) * 256 + msg[18]]
  /\ bankIdx' = 0
  /\ spc' = "banks5"
  /\ UNCHANGED << pc, msg, messageLength, spot, x, elapsed, returnedFrom,
                  argVars, lineVars, histVars,
                  sel, retryCount, dataRead, dataLengthRead, ret, reads, chkVars >>

\* a block is never cut to the room of its list
ClampedNot(bankLength, max) == bankLength

\* if (bankLength > read->xxxMemData.max) bankLength = read->xxxMemData.max;
Clamped(bankLength, max) == IF bankLength > max THEN max ELSE bankLength

\* for (j = 0; j < bankLength; j++) list[j] = msg[offset + i + j]; len = bankLength
Stored(l, m, from, bankLength, past) ==
  [l EXCEPT !.list = [k \in (DOMAIN l.list) \cup (0 .. (bankLength - 1)) |->
                        IF k < bankLength THEN MsgAt(m, from + k, past) ELSE l.list[k]],
            !.len = bankLength]

\* if (j > 3) if (j - 4 < TMR_MAX_EPC_BYTE_COUNT) read->epc[j - 4] = list[j]
EpcExtracted(epc, m, from, bankLength, past) ==
  LET written == { j - 4 : j \in { jj \in 4 .. (bankLength - 1) :
                                     jj - 4 < TMR_MAX_EPC_BYTE_COUNT } }
  IN  [k \in (DOMAIN epc) \cup written |->
         IF k \in written THEN MsgAt(m, from + k + 4, past) ELSE epc[k]]

\* the name of the list that takes the blocks of a bank
ListOf(bank) ==
  IF bank = TMR_GEN2_BANK_USER THEN "userMemData"
  ELSE IF bank = TMR_GEN2_BANK_TID THEN "tidMemData"
  ELSE IF bank = TMR_GEN2_BANK_RESERVED THEN "reservedMemData"
  ELSE "epcMemData"

\* i += bankLength (a uint8_t)
Advanced(start, bankLength) == U8(start + bankLength)

\* one turn of for (uint8_t i = 0; i < datalength;): the bank and the word
\* count are read, the block is stored in its list as far as there is room,
\* and i moves on; a bank that is none of the four ends the call
BankBlock ==
  /\ spc = "banks5"
  /\ bankIdx < Datalength(msg)
  /\ \E past \in OobBytes :
       LET bank == (MsgAt(msg, BankOffset + bankIdx, past) \div 16) % 16
           i1 == U8(bankIdx + 1)
           declared == U8(MsgAt(msg, BankOffset + i1, past) * 2)
           i2 == U8(i1 + 1)
           bankLength == Clamped(declared, read[ListOf(bank)].max)
       IN  IF bank \in { TMR_GEN2_BANK_USER, TMR_GEN2_BANK_TID,
                         TMR_GEN2_BANK_RESERVED, TMR_GEN2_BANK_EPC }
           THEN /\ read' =
                     LET r1 == [read EXCEPT ![ListOf(bank)] =
                                  Stored(@, msg, BankOffset + i2, bankLength, past)]
                     IN  IF bank = TMR_GEN2_BANK_EPC
                         THEN [r1 EXCEPT !.epc = EpcExtracted(@, msg, BankOffset + i2,
                                                              bankLength, past),
                                         !.epclen = U8(bankLength - 4)]
                         ELSE r1
                /\ bankIdx' = Advanced(i2, bankLength)
                /\ UNCHANGED << spc, ret >>
           ELSE /\ bankIdx' = i2
                /\ ret' = RESPONSE_FAIL
                /\ spc' = "returned"
                /\ UNCHANGED read
  /\ UNCHANGED << pc, msg, messageLength, spot, x, elapsed, returnedFrom,
                  argVars, lineVars, histVars,
                  sel, retryCount, dataRead, dataLengthRead, reads, chkVars >>

\* the loop has used up datalength: return (ALL_GOOD)
BanksDone ==
  /\ spc = "banks5"
  /\ bankIdx >= Datalength(msg)
  /\ ret' = ALL_GOOD
  /\ spc' = "returned"
  /\ UNCHANGED << pc, msg, messageLength, spot, x, elapsed, returnedFrom,
                  argVars, lineVars, histVars,
                  sel, retryCount, dataRead, dataLengthRead, reads, chkVars, bankVars >>

InitBanks ==
  /\ InitDriver
  /\ rx = << >>

NextBanks ==
  \/ ReadingAllBanks
  \/ BanksClear
  \/ BanksRead
  \/ BanksReadFailed
  \/ BanksNoTag
  \/ BanksGetBuffer
  \/ BanksBufferFailed
  \/ BanksMetadata
  \/ BankBlock
  \/ BanksDone
  \/ Flush
  \/ WriteByte
  \/ WriteDone
  \/ Wait1Avail
  \/ BodyRead
  \/ BodyDone
  \/ CheckResponse
  \/ Deliver

SpecBanks == InitBanks /\ [][NextBanks]_vars

\* ---------------------------------------------------------------------
\* The loop over the bank blocks on any tag buffer response
\* ---------------------------------------------------------------------

\* a tag buffer response that declares bits bits of bank data and carries
\* the bytes blocks behind the length field
BufferWith(bits, blocks) ==
  Resp(TMR_SR_OPCODE_GET_TAG_ID_BUFFER, << 0, 0 >>,
       << 15, 255, 0, 1, 1, 233, 17, 14, 14, 112, 0, 0, 0, 57, 0, 174, 5,
          bits \div 256, bits % 256 >> \o blocks)

\* the four banks as the module sends them
TypicalBlocks ==
  Block(TMR_GEN2_BANK_USER, UserWords) \o Block(TMR_GEN2_BANK_RESERVED, ReservedWords)
    \o Block(TMR_GEN2_BANK_EPC, EpcWords) \o Block(TMR_GEN2_BANK_TID, TidWords)

\* responses with a true length field (the four banks, no bank data, a
\* block of 0 words, a block that declares 255 words), and responses whose
\* length field declares 256 bytes and 8191 bytes of bank data
WalkResponses ==
  { BufferWith(Len(TypicalBlocks) * 8, TypicalBlocks),
    BufferWith(0, << >>),
    BufferWith(32, << TMR_GEN2_BANK_TID * 16, 0, TMR_GEN2_BANK_EPC * 16, 0 >>),
    BufferWith(32, << TMR_GEN2_BANK_USER * 16, 255, 1, 2 >>),
    BufferWith(2048, << TMR_GEN2_BANK_RESERVED * 16, 1 >>),
    BufferWith(2048, TypicalBlocks),
    BufferWith(65535, << TMR_GEN2_BANK_RESERVED * 16, 1 >>) }

\* ReadingAllBanks up to the tag buffer read: the commands before it are
\* answered, and the tag buffer response is in msg
WalkCall ==
  /\ pc = "idle"
  /\ spc = "none"
  /\ spc' = "banks4"
  /\ sel' = [op |-> "ReadingAllBanks"]
  /\ \E caps \in BankCapacities : read' = FreshRead(caps)
  /\ bankIdx' = 0
  /\ \E f \in WalkResponses :
       AnsweredCall(TMR_SR_OPCODE_GET_TAG_ID_BUFFER, TagBufferFlags, f)
  /\ UNCHANGED << retryCount, dataRead, dataLengthRead, ret, reads, chkVars >>

NextWalk ==
  \/ WalkCall
  \/ BanksMetadata
  \/ BankBlock
  \/ BanksDone

SpecWalk == InitBanks /\ [][NextWalk]_vars

\* the loop is not left waiting: its next turn, or its end, is taken
FairWalk == SpecWalk /\ WF_vars(BankBlock) /\ WF_vars(BanksDone)

(* ------------------------------------------------------------------ *)
(* Claims about the frame codec                                        *)
(* ------------------------------------------------------------------ *)
\* FF, n, opcode, the payload, and the CRC over n, opcode and the payload
CommandFrame(op, d) ==
  LET body == << Len(d), op >> \o d
      crc  == calculateCRC(body, Len(body))
  IN  << HEADER >> \o body \o << crc \div 256, crc % 256 >>

\* C7: for every opcode and payload of n bytes sendMessage writes the n + 5
\* bytes FF, n, opcode, payload, CRC high, CRC low in that order and nothing
\* else: what is written is always a prefix of that frame, and the whole of
\* it once the write loop has ended
C7_FrameWritten ==
  pc # "idle" =>
    /\ Len(tx) <= Len(data) + 5
    /\ SubSeq(tx, 1, Min(Len(tx), Len(data) + 3))
         = SubSeq(<< HEADER, Len(data), opcode >> \o data, 1, Min(Len(tx), Len(data) + 3))
    /\ Len(tx) > Len(data) + 3 => tx = SubSeq(CommandFrame(opcode, data), 1, Len(tx))
    /\ pc \notin { "flush", "write" } => Len(tx) = Len(data) + 5

\* a payload of 250 bytes, the largest whose frame fits msg, was written whole
C7_Witness ==
  /\ pc = "wait1"
  /\ Len(data) = 250
  /\ tx = CommandFrame(opcode, data)

\* every byte of the module's answer has arrived and has been read
AnswerConsumed ==
  /\ pc = "done"
  /\ moduleSent
  /\ wire = << >>
  /\ rx = << >>

\* C8 as stated: the bytes sendMessage wrote, returned unmodified, are
\* accepted as ALL_GOOD and carry the same opcode and payload
C8_EchoRoundTrip ==
  (AnswerConsumed /\ reply = Once(tx)) =>
     /\ msg[0] = ALL_GOOD
     /\ msg[2] = opcode
     /\ MsgBytes(msg, 3, Len(data)) = data

\* C8: a response frame (FF, n, opcode, two status bytes, payload, CRC over
\* all but the header) that answers a command with the command's opcode and
\* payload of n <= 247 bytes is, once received whole, accepted as ALL_GOOD with
\* that length, opcode and payload in msg; the command frame itself is not
C8_ResponseRoundTrip ==
  /\ (/\ returnedFrom = "check"
      /\ Len(data) <= 247
      /\ reply = Once(Resp(opcode, << 0, 0 >>, data)))
       => /\ msg[0] = ALL_GOOD
          /\ msg[1] = Len(data)
          /\ msg[2] = opcode
          /\ MsgBytes(msg, 5, Len(data)) = data
  /\ (AnswerConsumed /\ reply = Once(tx) /\ Len(data) <= 247)
       => /\ returnedFrom = "body"
          /\ msg[0] = ERROR_COMMAND_RESPONSE_TIMEOUT

\* a 247-byte payload came back in a response frame and was accepted
C8_Witness ==
  /\ returnedFrom = "check"
  /\ Len(data) = 247
  /\ reply = Once(Resp(opcode, << 0, 0 >>, data))
  /\ msg[0] = ALL_GOOD

(* ------------------------------------------------------------------ *)
(* Claims about SelectiveReadDataRegion                                *)
(* ------------------------------------------------------------------ *)
\* C9: a call with EPCoffset = 12 or EPCoffset + EPClen > 12 returns
\* ERROR_INVALID_EPC_REQ with dataLengthRead = 0, and no byte is written to or
\* read from the line in that call
C9_InvalidFilterRefused ==
  (spc # "none" /\ (sel.EPCoffset = 12 \/ sel.EPCoffset + sel.EPClen > 12)) =>
     /\ spc = "returned"
     /\ ret = ERROR_INVALID_EPC_REQ
     /\ dataLengthRead = 0
     /\ pc = "idle"
     /\ tx = << >>
     /\ flushed = 0
     /\ reads = 0
     /\ ~moduleSent

\* the request with offset 12 and an empty pattern was refused
C9_Witness ==
  /\ spc = "returned"
  /\ sel.EPCoffset = 12
  /\ sel.EPClen = 0
  /\ ret = ERROR_INVALID_EPC_REQ

\* C10: with RetryCount = n # 0 and responses that are valid but never
\* match, the call returns the retry-exceeded failure after exactly n + 1
\* multi-tag read requests
C10_RetryBudget ==
  (spc = "returned" /\ ret = ERROR_COMMAND_RESPONSE_TIMEOUT) =>
     reads = sel.RetryCount + 1

\* RetryCount = 3: the failure is returned after the fifth read
C10_Witness ==
  /\ spc = "returned"
  /\ ret = ERROR_COMMAND_RESPONSE_TIMEOUT
  /\ sel.RetryCount = 3
  /\ reads = 5

\* the EPClen bytes of a response that the filter is compared with
EpcWindow(m, s) ==
  [i \in 1 .. s.EPClen |-> m[EPCBankStartPos(s.bank) + s.EPCoffset + i - 1]]

\* C11: with RetryCount = 0 the call never returns the retry-exceeded
\* failure and never counts a retry; a valid response that does not match
\* leads to another read, whatever the number of reads before it; and the call
\* returns only on a transport failure or on a response whose EPC matches
C11_UnlimitedRetries ==
  /\ [](sel.RetryCount = 0 /\ spc \in { "setup1", "setup2", "setup3", "read", "retry", "returned" }
         => /\ retryCount = 0
            /\ ret # ERROR_COMMAND_RESPONSE_TIMEOUT
            /\ (spc = "returned" /\ reads > 0) =>
                  \/ msg[0] # ALL_GOOD /\ ret = RESPONSE_FAIL
                  \/ msg[0] = ALL_GOOD /\ EpcWindow(msg, sel) = sel.TMR_EPC)
  /\ [][(/\ sel.RetryCount = 0
          /\ spc = "read"
          /\ pc = "done"
          /\ msg[0] = ALL_GOOD
          /\ EpcWindow(msg, sel) # sel.TMR_EPC) => spc' = "retry"]_vars
  /\ [][(sel.RetryCount = 0 /\ spc = "retry")
          => /\ spc' = "read"
             /\ reads' = reads + 1
             /\ opcode' = TMR_SR_OPCODE_READ_TAG_ID_MULTIPLE]_vars

\* with RetryCount = 0 the fifth response that does not match is followed by
\* a sixth read
C11_Witness ==
  /\ sel.RetryCount = 0
  /\ ~InvalidEPCRequest(sel)
  /\ spc = "read"
  /\ reads = 6
  /\ retryCount = 0

\* C12: a multi-tag read whose transport result is not ALL_GOOD (timeout,
\* damaged frame, foreign opcode) ends the call at once: the step that
\* evaluates it returns RESPONSE_FAIL with dataLengthRead = 0, counts no retry
\* and sends nothing, and nothing is sent after the return
C12_TransportFailureEndsCall ==
  /\ [][(spc = "read" /\ pc = "done" /\ msg[0] # ALL_GOOD)
          => /\ spc' = "returned"
             /\ ret' = RESPONSE_FAIL
             /\ dataLengthRead' = 0
             /\ retryCount' = retryCount
             /\ UNCHANGED << reads, tx, pc, msg >>]_vars
  /\ [][spc = "returned" => UNCHANGED << spc, reads, tx, ret, dataLengthRead >>]_vars
  /\ [](spc = "read" /\ pc = "done"
          => msg[0] \in { ALL_GOOD, ERROR_COMMAND_RESPONSE_TIMEOUT,
                          ERROR_CORRUPT_RESPONSE, ERROR_WRONG_OPCODE_RESPONSE })

\* a first read that timed out ended a call that asked for three retries
C12_Witness ==
  /\ spc = "returned"
  /\ reads = 1
  /\ msg[0] = ERROR_COMMAND_RESPONSE_TIMEOUT
  /\ sel.RetryCount = 3
  /\ retryCount = 0
  /\ ret = RESPONSE_FAIL
  /\ dataLengthRead = 0

\* the frame f carries, ahead of its CRC, the bytes of the filter s at the
\* place of the EPC: byte i of the frame is f[i + 1]
FrameCarriesPattern(f, s) ==
  \A e \in 0 .. (s.EPClen - 1) :
    LET i == EPCBankStartPos(s.bank) + s.EPCoffset + e
    IN  i + 1 <= Len(f) - 2 /\ f[i + 1] = s.TMR_EPC[e + 1]

\* C13: RESPONSE_SUCCESS is returned only when the response to the last read
\* was accepted and carries, at offset EPCoffset of the EPC of the tag it
\* reports, the EPClen bytes of TMR_EPC; dataRead is written on no other
\* return
C13_SuccessOnlyOnMatch ==
  /\ (spc = "returned" /\ ret = RESPONSE_SUCCESS) =>
        /\ reads > 0
        /\ msg[0] = ALL_GOOD
        /\ FrameCarriesPattern(reply.bytes, sel)
  /\ dataRead # << >> => (spc = "returned" /\ ret = RESPONSE_SUCCESS)

\* the filter on the last two bytes of the EPC let tag B pass by and accepted
\* tag C, whose first byte differs from tag A's
C13_Witness ==
  /\ spc = "returned"
  /\ ret = RESPONSE_SUCCESS
  /\ sel.EPClen = 2
  /\ sel.EPCoffset = 10
  /\ sel.bank = TMR_GEN2_BANK_USER
  /\ reads = 3
  /\ reply = Once(TagResponse(sel.bank, TagC))
  /\ dataRead # << >>

\* the number of bytes the frame f reports for the bank read: 12 for the EPC
\* bank, else twice the word count that follows the bank type
ReportedBytes(f, bank) ==
  IF bank = TMR_GEN2_BANK_EPC THEN 12 ELSE 2 * f[39]

\* C14: after a match on a response that reports a tag, the call returns
\* ERROR_INVALID_REQ, copying nothing, exactly when address * 2 + length * 2
\* lies beyond the byte length the response reports for the bank; every window
\* within that length is served
C14_WindowWithinBank ==
  (/\ spc = "returned"
   /\ ret \in { RESPONSE_SUCCESS, ERROR_INVALID_REQ }
   /\ Len(reply.bytes) > 36) =>
     /\ ret = ERROR_INVALID_REQ
           <=> sel.address * 2 + sel.length * 2 > ReportedBytes(reply.bytes, sel.bank)
     /\ ret = ERROR_INVALID_REQ => (dataRead = << >> /\ dataLengthRead = 0)

\* the word at address 6 lies beyond the three words the user bank reports
\* and beyond the 12 bytes of the EPC: the request was refused after a match
C14_Witness ==
  /\ spc = "returned"
  /\ ret = ERROR_INVALID_REQ
  /\ sel.address = 6
  /\ sel.bank = TMR_GEN2_BANK_USER
  /\ sel.EPClen = 12
  /\ reply = Once(TagResponse(sel.bank, TagA))
  /\ dataRead = << >>
  /\ dataLengthRead = 0

\* C15: on success the call has copied exactly min(length * 2, capacity)
\* bytes, those of the response from the start of the window on, and
\* dataLengthRead is that count; dataRead is never written at an index at or
\* beyond the capacity the caller gave
C15_CopyClamped ==
  /\ (spc = "returned" /\ ret = RESPONSE_SUCCESS) =>
        LET n == IF sel.length * 2 < sel.capacity THEN sel.length * 2 ELSE sel.capacity
            start == (IF sel.bank = TMR_GEN2_BANK_EPC THEN 23 ELSE 39) + sel.address * 2
        IN  /\ dataLengthRead = n
            /\ Len(dataRead) = n
            /\ \A i \in 1 .. n : dataRead[i] = msg[start + i - 1]
  /\ spc # "none" => Len(dataRead) <= sel.capacity

\* two words were asked for with room for three bytes: three bytes of the
\* EPC from its third on were copied
C15_Witness ==
  /\ spc = "returned"
  /\ ret = RESPONSE_SUCCESS
  /\ sel.length = 2
  /\ sel.capacity = 3
  /\ sel.bank = TMR_GEN2_BANK_EPC
  /\ reply = Once(TagResponse(sel.bank, TagA))
  /\ dataLengthRead = 3
  /\ dataRead = << 0, 21, 134 >>

\* C16: every return other than RESPONSE_SUCCESS leaves dataLengthRead = 0:
\* the refused filter, the transport failure, the retries exceeded and the
\* window beyond the bank
C16_FailureZeroesLength ==
  /\ (spc = "returned" /\ ret # RESPONSE_SUCCESS) => dataLengthRead = 0
  /\ spc = "returned" =>
        ret \in { RESPONSE_SUCCESS, RESPONSE_FAIL, ERROR_INVALID_EPC_REQ,
                  ERROR_INVALID_REQ, ERROR_COMMAND_RESPONSE_TIMEOUT }

\* the retries ran out in a call that had room for eight bytes
C16_Witness ==
  /\ spc = "returned"
  /\ ret = ERROR_COMMAND_RESPONSE_TIMEOUT
  /\ sel.capacity = 8
  /\ sel.RetryCount = 1
  /\ dataLengthRead = 0

(* ------------------------------------------------------------------ *)
(* Claims about the status word                                        *)
(* ------------------------------------------------------------------ *)
\* the operation that has returned reports success: true from setPowerMode,
\* RESPONSE_SUCCESS from the others
ReportsSuccess ==
  IF sel.op = "setPowerMode" THEN ret = TRUE ELSE ret = RESPONSE_SUCCESS

\* C17: no operation reports success for a response with a valid CRC and the
\* opcode of the command whose status word is not 0000
C17_NonZeroStatusFails ==
  (/\ spc = "returned"
   /\ returnedFrom = "check"
   /\ msg[0] = ALL_GOOD
   /\ (msg[3] # 0 \/ msg[4] # 0)) => ~ReportsSuccess

\* readData refused a good frame with status 0400 that carried four bytes
C17_Witness ==
  /\ spc = "returned"
  /\ sel.op = "readData"
  /\ msg[0] = ALL_GOOD
  /\ msg[1] = 4
  /\ msg[3] = 4
  /\ msg[4] = 0
  /\ ret = RESPONSE_FAIL
  /\ dataLengthRead = 0
  /\ dataRead = << >>

(* ------------------------------------------------------------------ *)
(* Claims about continuous reading                                     *)
(* ------------------------------------------------------------------ *)

\* the frame f is a stats update that carries a temperature: msg[8] = 0x02,
\* msg[13] = 1, msg[11] = 0x82
IsStatsUpdate(f) == Len(f) > 14 /\ f[9] = 2 /\ f[14] = 1 /\ f[12] = 130

\* C18: when a call of check() has returned, it returned true exactly if it
\* completed a frame and that frame is not a stats update with a
\* temperature; a call that completed no frame returned false
C18_CheckSignalsFrames ==
  cpc = "returned" =>
    (checkReturn <=> (lastComplete # << >> /\ ~IsStatsUpdate(lastComplete)))

\* C18: after startReading() a call of check() completed a tag record and
\* returned true
C18_Witness ==
  /\ cpc = "returned"
  /\ _continuousModeTemp
  /\ lastComplete = TagRecord
  /\ checkReturn

\* msg holds a whole frame, and the two bytes that end it are the CRC of
\* the bytes 1 .. msg[1] + 4
HoldsValidFrame(m) ==
  /\ m[1] + 7 <= MAX_MSG_SIZE
  /\ LET crc == calculateCRC(MsgBytes(m, 1, m[1] + 4), m[1] + 4)
     IN  /\ m[m[1] + 5] = crc \div 256
         /\ m[m[1] + 6] = crc % 256

\* C19: whatever the length byte, parseResponse returns
\* ERROR_CORRUPT_RESPONSE unless the last two bytes of the frame in msg are
\* the CRC of its bytes 1 .. msg[1] + 4: a classification, or any other
\* result, is returned for a frame with the right CRC only
C19_CorruptFramesRefused ==
  parseReturn \notin { NoResult, ERROR_CORRUPT_RESPONSE } => HoldsValidFrame(msg)

\* C19: check() completed a tag record whose last byte was damaged, and
\* parseResponse called it corrupt
C19_Witness ==
  /\ lastComplete = BadCrc(TagRecord)
  /\ MsgBytes(msg, 0, Len(TagRecord)) = BadCrc(TagRecord)
  /\ parseReturn = ERROR_CORRUPT_RESPONSE

\* C20: for a frame in msg with the right CRC, opcode 0x22 and a length
\* byte of 0, parseResponse returns RESPONSE_IS_KEEPALIVE when the status
\* word is 0x0400 and RESPONSE_IS_TEMPTHROTTLE when it is 0x0504
C20_KeepAliveAndThrottle ==
  ( /\ parseReturn # NoResult
    /\ HoldsValidFrame(msg)
    /\ msg[2] = TMR_SR_OPCODE_READ_TAG_ID_MULTIPLE
    /\ msg[1] = 0 ) =>
      /\ (msg[3] = 4 /\ msg[4] = 0) => parseReturn = RESPONSE_IS_KEEPALIVE
      /\ (msg[3] = 5 /\ msg[4] = 4) => parseReturn = RESPONSE_IS_TEMPTHROTTLE

\* C20: the throttle frame was received whole and parseResponse named it
C20_Witness ==
  /\ lastComplete = Throttle
  /\ MsgBytes(msg, 0, Len(Throttle)) = Throttle
  /\ parseReturn = RESPONSE_IS_TEMPTHROTTLE

\* C21: for a frame in msg with the right CRC, opcode 0x22, a length byte
\* of 14 and the status word 0x0400, parseResponse returns
\* RESPONSE_IS_KEEPALIVE
C21_SecondKeepAlive ==
  ( /\ parseReturn # NoResult
    /\ HoldsValidFrame(msg)
    /\ msg[2] = TMR_SR_OPCODE_READ_TAG_ID_MULTIPLE
    /\ msg[1] = 14
    /\ msg[3] = 4
    /\ msg[4] = 0 ) => parseReturn = RESPONSE_IS_KEEPALIVE

\* C21: the 14-byte form was received whole and parseResponse has returned
C21_Witness ==
  /\ lastComplete = ScanIndication
  /\ MsgBytes(msg, 0, Len(ScanIndication)) = ScanIndication
  /\ parseReturn # NoResult

\* the frame in m is a tag record of continuous reading: status 0000, the
\* option byte 0x10 at msg[5], and a length byte that belongs to none of the
\* other forms
IsTagRecord(m) ==
  /\ m[3] = 0
  /\ m[4] = 0
  /\ m[5] = 16
  /\ m[1] \notin { 0, 8, 10, 14 }

\* C22: for a frame in msg with the right CRC and opcode 0x22,
\* parseResponse returns RESPONSE_IS_TAGFOUND only if the frame is a tag
\* record; a frame of any other form gets another result
C22_TagFoundOnlyForTagRecords ==
  ( /\ parseReturn = RESPONSE_IS_TAGFOUND
    /\ HoldsValidFrame(msg)
    /\ msg[2] = TMR_SR_OPCODE_READ_TAG_ID_MULTIPLE ) => IsTagRecord(msg)

\* C22: a tag record was received whole and parseResponse reported a tag
C22_Witness ==
  /\ lastComplete = TagRecord
  /\ MsgBytes(msg, 0, Len(TagRecord)) = TagRecord
  /\ parseReturn = RESPONSE_IS_TAGFOUND

(* ------------------------------------------------------------------ *)
(* Claims about ReadingAllBanks                                        *)
(* ------------------------------------------------------------------ *)

RECURSIVE WireBlocks(_, _, _)
\* the bank blocks of the frame f (counted from 1) from position pos up to,
\* not including, position end, each taken with the length it declares
WireBlocks(f, pos, end) ==
  IF pos + 1 >= end \/ pos + 1 > Len(f)
  THEN << >>
  ELSE << [bank |-> f[pos] \div 16,
           bytes |-> SubSeq(f, pos + 2, Min(pos + 1 + 2 * f[pos + 1], Len(f)))] >>
         \o WireBlocks(f, pos + 2 + 2 * f[pos + 1], end)

\* the bank blocks of the tag buffer response f
BlocksOf(f) ==
  WireBlocks(f, BankOffset + 1, BankOffset + 1 + (f[23] * 256 + f[24]) \div 8)

\* ReadingAllBanks has returned after it got a tag buffer response
BanksParsed ==
  /\ spc = "returned"
  /\ opcode = TMR_SR_OPCODE_GET_TAG_ID_BUFFER
  /\ msg[0] = ALL_GOOD

\* every block of the sequence bs is of one of the four banks and has room
\* in its list, and an EPC block has its CRC and PC word
AllFit(bs, r) ==
  \A n \in 1 .. Len(bs) :
    /\ bs[n].bank \in { TMR_GEN2_BANK_RESERVED, TMR_GEN2_BANK_EPC,
                        TMR_GEN2_BANK_TID, TMR_GEN2_BANK_USER }
    /\ Len(bs[n].bytes) <= r[ListOf(bs[n].bank)].max
    /\ bs[n].bank = TMR_GEN2_BANK_EPC => Len(bs[n].bytes) >= 4

\* the list l holds the bytes b and reports their number
HoldsBlock(l, b) ==
  /\ l.len = Len(b)
  /\ \A k \in 1 .. Len(b) : l.list[k - 1] = b[k]

\* epc holds the bytes of the EPC block b from index 4 on, and epclen
\* counts them
ExposesEpc(r, b) ==
  /\ r.epclen = Len(b) - 4
  /\ \A k \in 0 .. (Len(b) - 5) : k \in DOMAIN r.epc /\ r.epc[k] = b[k + 5]

\* C23: when every bank block of the tag buffer response fits the room of
\* its list, ReadingAllBanks returns ALL_GOOD with each block's bytes
\* unchanged in the list of its bank, len the word count times 2, epc the
\* bytes of the EPC block from index 4 on and epclen their number
C23_BanksStoredExactly ==
  (BanksParsed /\ AllFit(BlocksOf(reply.bytes), read)) =>
    /\ ret = ALL_GOOD
    /\ \A n \in 1 .. Len(BlocksOf(reply.bytes)) :
         LET b == BlocksOf(reply.bytes)[n]
         IN  /\ HoldsBlock(read[ListOf(b.bank)], b.bytes)
             /\ b.bank = TMR_GEN2_BANK_EPC => ExposesEpc(read, b.bytes)

\* C23: the typical response (user 64 bytes, reserved 8, EPC 16, TID 24) was
\* stored in lists with room to spare
C23_Witness ==
  /\ BanksParsed
  /\ ret = ALL_GOOD
  /\ Len(BlocksOf(reply.bytes)) = 4
  /\ read.userMemData.max = 64
  /\ read.userMemData.len = 64
  /\ read.tidMemData.len = 24
  /\ read.epclen = 12

\* the four lists of a TMR_TagReadData
BankLists == { "userMemData", "tidMemData", "reservedMemData", "epcMemData" }

HasUnknownBank(bs) ==
  \E n \in 1 .. Len(bs) :
    bs[n].bank \notin { TMR_GEN2_BANK_RESERVED, TMR_GEN2_BANK_EPC,
                        TMR_GEN2_BANK_TID, TMR_GEN2_BANK_USER }

\* C25: when a bank block of the tag buffer response, within the data
\* length it declares, is of a bank other than reserved, EPC, TID and user,
\* ReadingAllBanks does not return ALL_GOOD
C25_UnknownBankFails ==
  (BanksParsed /\ HasUnknownBank(BlocksOf(reply.bytes))) => ret # ALL_GOOD

\* C25: a block of bank 4 follows an EPC block that was stored whole, and
\* the call failed there
C25_Witness ==
  /\ BanksParsed
  /\ HasUnknownBank(BlocksOf(reply.bytes))
  /\ read.epcMemData.len = 16
  /\ bankIdx = 20
  /\ ret = RESPONSE_FAIL

\* the response f to the multi-tag read carries the counter of successful
\* reads (msg[15], msg[16]) and it is 0
ReportsNoSuccess(f) == Len(f) > 18 /\ f[16] = 0 /\ f[17] = 0

\* C26: the step ReadingAllBanks takes after a multi-tag read that
\* sendCommand accepted and that reports 0 successful reads is the return
\* of RESPONSE_IS_NOTAGFOUND, which is not RESPONSE_FAIL, and it sends
\* nothing: the last command on the line stays the multi-tag read
C26_NoTagFoundEndsCall ==
  [][ ( /\ spc = "banks3"
        /\ pc = "done"
        /\ msg[0] = ALL_GOOD
        /\ ReportsNoSuccess(reply.bytes) ) =>
        /\ spc' = "returned"
        /\ ret' = RESPONSE_IS_NOTAGFOUND
        /\ ret' # RESPONSE_FAIL
        /\ tx' = tx
        /\ opcode' = TMR_SR_OPCODE_READ_TAG_ID_MULTIPLE ]_vars

\* C26: the multi-tag read reported 0 successful and 1 failed read, and
\* ReadingAllBanks returned RESPONSE_IS_NOTAGFOUND
C26_Witness ==
  /\ spc = "returned"
  /\ reply.bytes = MultiReadResponse(0, 1)
  /\ read.succesCount = 0
  /\ read.failureCount = 1
  /\ ret = RESPONSE_IS_NOTAGFOUND
  /\ opcode = TMR_SR_OPCODE_READ_TAG_ID_MULTIPLE

(* ------------------------------------------------------------------ *)
(* Claims about readData and readDataRegion                            *)
(* ------------------------------------------------------------------ *)

\* C27: when readData or readDataRegion has returned RESPONSE_SUCCESS,
\* dataLengthRead is the smaller of the room given on entry and the length
\* byte of the response, and dataRead holds that many bytes, the first of
\* the response's data; when it has returned anything else, dataLengthRead
\* is 0 and dataRead was not written; it succeeds exactly on a response that
\* sendCommand accepted and whose status is 0000
C27_ReadClampedOrZero ==
  (spc = "returned" /\ sel.op \in { "readData", "readDataRegion" }) =>
    /\ ret = RESPONSE_SUCCESS <=>
         (msg[0] = ALL_GOOD /\ reply.bytes[4] = 0 /\ reply.bytes[5] = 0)
    /\ IF ret = RESPONSE_SUCCESS
       THEN /\ dataLengthRead = Min(sel.capacity, reply.bytes[2])
            /\ dataLengthRead <= sel.capacity
            /\ Len(dataRead) = dataLengthRead
            /\ \A n \in 1 .. Len(dataRead) : dataRead[n] = reply.bytes[5 + n]
       ELSE /\ dataLengthRead = 0
            /\ dataRead = << >>

\* C27: readData with room for 4 bytes got a response with 6 and copied 4
C27_Witness ==
  /\ spc = "returned"
  /\ sel.op = "readData"
  /\ sel.capacity = 4
  /\ reply.bytes[2] = 6
  /\ ret = RESPONSE_SUCCESS
  /\ dataLengthRead = 4
  /\ dataRead = SubSeq(BankWords, 1, 4)

(* ------------------------------------------------------------------ *)
(* Claims about the length byte of a response                          *)
(* ------------------------------------------------------------------ *)

\* f is a whole response frame: its length byte plus 7 bytes
IsWholeFrame(f) == Len(f) >= 7 /\ Len(f) = f[2] + 7

\* C28: whatever the length byte of the response, sendCommand ends its read
\* loop for the CRC check exactly when msg[1] + 7 bytes have been stored: a
\* call that reached the check has stored that many, a whole response that
\* was read to its last byte has reached the check, and the call reports a
\* corrupt response exactly if the bytes at msg[1] + 5 and msg[1] + 6 differ
\* from the CRC of the bytes 1 .. msg[1] + 4
C28_CompleteAtLengthPlus7 ==
  /\ returnedFrom = "check" =>
       /\ spot = msg[1] + 7
       /\ msg[1] + 7 <= MAX_MSG_SIZE
       /\ LET crc == calculateCRC(MsgBytes(msg, 1, msg[1] + 4), msg[1] + 4)
          IN  (msg[0] = ERROR_CORRUPT_RESPONSE) <=>
                ~(msg[msg[1] + 5] = crc \div 256 /\ msg[msg[1] + 6] = crc % 256)
  /\ (AnswerConsumed /\ IsWholeFrame(reply.bytes)) => returnedFrom = "check"

\* C28: a response with a length byte of 3 was complete after 10 bytes and
\* passed the CRC check
C28_Witness ==
  /\ returnedFrom = "check"
  /\ IsWholeFrame(reply.bytes)
  /\ msg[1] = 3
  /\ spot = 10
  /\ msg[0] = ALL_GOOD

\* ---------------------------------------------------------------------
\* Claims about check()
\* ---------------------------------------------------------------------

\* a turn of the loop of check(): a byte leaves the UART
CheckTurn == cpc = "loop" /\ rx # << >> /\ rx' = Tail(rx)

\* C29: while the continuous decoder searches a header (_head = 0), check()
\* discards every incoming byte other than 0xFF, leaving msg and _head as
\* they were, and starts a frame only on a 0xFF byte, which it stores at
\* msg[0]
C29_HeaderSearch ==
  [][(CheckTurn /\ _head = 0) =>
       IF Head(rx) # HEADER
       THEN msg' = msg /\ _head' = 0
       ELSE msg' = [msg EXCEPT ![0] = HEADER] /\ _head' = 1]_vars

\* two stray bytes were read and dropped, the frame behind them is still to
\* come
C29_Witness ==
  /\ cpc = "loop"
  /\ consumed = 2
  /\ _head = 0
  /\ lastComplete = << >>
  /\ rx \o wire = TagRecord

\* the number of bytes of the frame f that check() has read, when f and
\* then behind is what the module sent last
BytesRead(f, behind) == Len(f) + Len(behind) - Len(rx) - Len(wire)

\* check() has stored the first k bytes of the frame f, whose header went to
\* msg[0]; the rest of f, and then the frame behind it, is still to be read
Fed(f, k, behind) ==
  /\ k >= 1
  /\ k < Len(f)
  /\ rx \o wire = SubSeq(f, k + 1, Len(f)) \o behind
  /\ _head = k % MAX_MSG_SIZE
  /\ \A i \in 0 .. (Min(k, MAX_MSG_SIZE) - 1) : msg[i] = f[i + 1]

\* C30: in check(), for every value of the length byte, a frame that began
\* at a 0xFF header is complete exactly when the number of bytes stored
\* since the header equals msg[1] + 7: the byte that brings the count to
\* msg[1] + 7 completes the frame, _head returns to 0 and every byte of msg
\* after the frame is zero; any earlier byte is stored and the frame stays
\* open
C30_CompleteAtLengthPlus7InCheck ==
  [][CheckTurn =>
       \A f \in LongFrames : \A behind \in { << >>, KeepAlive, TagRecord } :
         LET k == BytesRead(f, behind)
         IN  Fed(f, k, behind) =>
               IF k + 1 = f[2] + 7
               THEN /\ _head' = 0
                    /\ lastComplete' = f
                    /\ \A i \in MsgIndex : i >= k + 1 => msg'[i] = 0
                    /\ _continuousModeTemp => cpc' = "returned"
               ELSE /\ _head' = k + 1
                    /\ msg'[k] = f[k + 1]
                    /\ lastComplete' = lastComplete
                    /\ cpc' = "loop"]_vars

\* a keep-alive that followed a tag record is complete: the bytes that the
\* record left behind the keep-alive are zero again
C30_Witness ==
  /\ lastComplete = KeepAlive
  /\ _head = 0
  /\ rx \o wire = << >>
  /\ consumed = 2
  /\ \A i \in MsgIndex : i >= 7 => msg[i] = 0
  /\ cpc = "loop"

\* ---------------------------------------------------------------------
\* Claims about the cached temperature
\* ---------------------------------------------------------------------

\* startReading() is past disableReadFilter(): _contTemp = 0
TempReset == spc = "start1" /\ spc' = "start2" /\ _contTemp' = 0

\* the turn of check() completes a frame that is a stats update with one
\* byte of temperature
StatsFrameCompleted ==
  /\ CheckTurn
  /\ _head' = 0
  /\ lastComplete' # lastComplete
  /\ msg'[8] = 2
  /\ msg'[13] = 1
  /\ msg'[11] = 130

C32_TimestampAll32Bits ==
  spc = "stamped" =>
    ret = << msg[17] * 256 + msg[18], msg[19] * 256 + msg[20] >>

\* the timestamp 00 01 00 00 of a record has been returned as 0
C32_Witness ==
  /\ spc = "stamped"
  /\ msg[17] = 0 /\ msg[18] = 1 /\ msg[19] = 0 /\ msg[20] = 0
  /\ ret = << 0, 0 >>

\* ---------------------------------------------------------------------
\* Claims about damaged frames
\* ---------------------------------------------------------------------

\* C33: a valid response frame with any single bit of its opcode, status,
\* payload or CRC bytes flipped fails the CRC check: sendCommand, once it has
\* the frame, reports ERROR_CORRUPT_RESPONSE, and parseResponse on the frame
\* that check() completed returns ERROR_CORRUPT_RESPONSE
C33_SingleBitFlipRefused ==
  /\ returnedFrom = "check" => msg[0] = ERROR_CORRUPT_RESPONSE
  /\ AnswerConsumed => returnedFrom = "check"
  /\ (/\ parseReturn # NoResult
      /\ lastComplete # << >>
      /\ MsgBytes(msg, 0, Len(lastComplete)) = lastComplete) =>
        parseReturn = ERROR_CORRUPT_RESPONSE

\* a response whose opcode byte has a bit flipped was refused by sendCommand
C33_Witness ==
  /\ returnedFrom = "check"
  /\ msg[0] = ERROR_CORRUPT_RESPONSE
  /\ msg[2] = TMR_SR_OPCODE_VERSION - 1
  /\ msg[1] = 2

\* ---------------------------------------------------------------------
\* Claims about the position of the continuous decoder
\* ---------------------------------------------------------------------

\* C34: after any sequence of check() calls on any byte stream, _head stays
\* in 0..254, and a turn of check() writes msg only at indices 0..254: at
\* the position it had (the byte read) and, when the frame completes, from
\* the end of the frame to index 254 (zeros)
C34_HeadInsideMsg ==
  [][/\ _head \in 0 .. 254
     /\ _head' \in 0 .. 254
     /\ DOMAIN msg' = 0 .. 254
     /\ CheckTurn =>
          \A i \in 0 .. 254 :
            msg'[i] # msg[i] =>
              \/ i = _head /\ msg'[i] = Head(rx)
              \/ _head' = 0 /\ i > _head /\ msg'[i] = 0]_vars

\* the decoder has stored a byte at index 254, the last of msg, and its
\* position has wrapped to 0 without a complete frame
C34_Witness ==
  /\ _head = 0
  /\ msg[0] = HEADER
  /\ msg[1] = 255
  /\ msg[254] = 0
  /\ lastComplete = << >>
  /\ cpc = "loop"
  /\ Len(rx) + Len(wire) = 5

\* C35: the decoder cannot stay inside a frame forever: every byte that
\* check() consumes either leaves it in header search (_head = 0) or moves
\* its position up by one, and the position never passes 254; from a
\* position h it is therefore back at _head = 0 after at most 255 - h
\* further bytes, whatever the length byte says
C35_BackInHeaderSearch ==
  [][CheckTurn =>
       \/ _head' = 0
       \/ /\ _head' = _head + 1
          /\ _head' <= MAX_MSG_SIZE - 1]_vars

\* a header and a length byte of 250, which no frame in msg can have: after
\* 255 bytes the decoder is in header search again, the keep-alive behind
\* the garbled bytes still to come
C35_Witness ==
  /\ _head = 0
  /\ msg[0] = HEADER
  /\ msg[1] = 250
  /\ msg[254] = 7
  /\ rx \o wire = << 7 >> \o KeepAlive

\* ---------------------------------------------------------------------
\* Claims about commands issued while the module streams
\* ---------------------------------------------------------------------

\* sendCommand reads a byte of the response
ResponseByteRead == pc = "body" /\ rx # << >> /\ rx' = Tail(rx)

\* C37: with the module still streaming while a command is issued, every
\* byte that sendCommand stores as the response was emitted by the module
\* after it received the command: no byte that arrived between the input
\* drain and the end of the write is stored
C37_ResponseAfterCommand ==
  [][ResponseByteRead => earlyLeft = 0]_vars

\* a keep-alive of the stream, its first bytes emitted while the version
\* command was being written, has been taken as the response to the command
C37_Witness ==
  /\ pc = "done"
  /\ returnedFrom = "check"
  /\ opcode = TMR_SR_OPCODE_VERSION
  /\ reply = Forever(KeepAlive)
  /\ flushed = 0
  /\ MsgBytes(msg, 1, 6) = SubSeq(KeepAlive, 2, 7)
  /\ msg[0] = ERROR_WRONG_OPCODE_RESPONSE

\* ---------------------------------------------------------------------
\* Claims about the retry counter of SelectiveReadDataRegion
\* ---------------------------------------------------------------------

\* C38: for every RetryCount in 1..255 and a module that always answers
\* with a valid response of another tag, SelectiveReadDataRegion ends with
\* the retry-exceeded failure after finitely many requests: while the call
\* retries, the 8-bit counter equals the number of requests answered (it
\* has not wrapped) and that number has not passed RetryCount + 1
C38_RetryCounterEnds ==
  spc = "retry" =>
    /\ retryCount = reads
    /\ reads <= sel.RetryCount + 1

\* with RetryCount = 255 the counter is at 0 again after 256 requests and
\* the call goes on retrying
C38_Witness ==
  /\ spc = "retry"
  /\ sel.RetryCount = 255
  /\ reads = 256
  /\ retryCount = 0

\* C36: after any sendMessage call (here the two of startReading) the
\* continuous decoder is in header search (_head = 0), and the next check()
\* begins the frame at its 0xFF byte and completes it by its own length
\* byte: once the frame has been read, msg holds it from index 0 and the
\* decoder is in header search again
C36_DecoderResetByCommand ==
  /\ (spc = "reading" /\ reads = 0) => _head = 0
  /\ (spc = "reading" /\ reads = 1 /\ cpc = "returned" /\ rx \o wire = << >>) =>
       /\ _head = 0
       /\ \E f \in AfterCommand : MsgBytes(msg, 0, Len(f)) = f

\* check() had stored a header alone when startReading() was called; the
\* keep-alive that followed was stored from msg[1] on and is not complete
C36_Witness ==
  /\ spc = "reading"
  /\ reads = 1
  /\ cpc = "returned"
  /\ rx \o wire = << >>
  /\ _head = 8
  /\ MsgBytes(msg, 1, 7) = KeepAlive

(* ------------------------------------------------------------------ *)
(* Claims about the walk over the bank blocks                          *)
(* ------------------------------------------------------------------ *)
\* C39: when the bank blocks of the tag buffer response are all of the four
\* banks, every block is decoded from its own type and length bytes,
\* whether or not a block before it was cut to the room of its list: after
\* the call the list of each block's bank holds the beginning of that block,
\* as many bytes as the block has or the list has room for
C39_TruncationKeepsLaterBlocks ==
  (BanksParsed /\ ~HasUnknownBank(BlocksOf(reply.bytes))) =>
    \A n \in 1 .. Len(BlocksOf(reply.bytes)) :
      LET b == BlocksOf(reply.bytes)[n]
          l == read[ListOf(b.bank)]
          kept == Min(Len(b.bytes), l.max)
      IN  /\ l.len = kept
          /\ \A j \in 1 .. kept : l.list[j - 1] = b.bytes[j]

\* C39: the user block of 64 bytes was cut to the 3 bytes its list has room
\* for, and the reserved block behind it was not stored
C39_Witness ==
  /\ BanksParsed
  /\ Len(BlocksOf(reply.bytes)) = 4
  /\ read.userMemData.max = 3
  /\ read.userMemData.len = 3
  /\ read.userMemData.list[2] = UserWords[3]
  /\ read.reservedMemData.len = 0

\* the places of msg that the next turn of the loop reads: the bank byte,
\* the word count and, for one of the four banks, the bytes it copies
TurnReads ==
  LET at == BankOffset + bankIdx
      len == BankOffset + U8(bankIdx + 1)
      from == BankOffset + U8(U8(bankIdx + 1) + 1)
      bank == (MsgAt(msg, at, 0) \div 16) % 16
      declared == U8(MsgAt(msg, len, 0) * 2)
      copied == IF declared > read[ListOf(bank)].max
                THEN read[ListOf(bank)].max ELSE declared
  IN  { at, len }
        \cup (IF at \in MsgIndex /\ len \in MsgIndex
                 /\ bank \in { TMR_GEN2_BANK_USER, TMR_GEN2_BANK_TID,
                               TMR_GEN2_BANK_RESERVED, TMR_GEN2_BANK_EPC }
              THEN { from + j : j \in 0 .. (copied - 1) }
              ELSE { })

\* C40: whatever the tag buffer response holds, the loop over the bank
\* blocks reads msg at indices 0..254 only, and once entered it ends: the
\* call returns
C40_WalkEndsInsideMsg ==
  /\ []((spc = "banks5" /\ bankIdx < Datalength(msg)) => TurnReads \subseteq 0 .. 254)
  /\ (spc = "banks5") ~> (spc = "returned")

\* C40: the response declares 256 bytes of bank data; the loop has come to
\* i = 230, where the word count is read at msg[255]
C40_Witness ==
  /\ spc = "banks5"
  /\ Datalength(msg) = 256
  /\ bankIdx = 230
  /\ read.reservedMemData.len = 0

============================================================================
